---- MODULE Spec2Model ----
(***************************************************************************)
(* Model of the evergreen project configuration validator                  *)
(* (validator/project_validator.go).                                       *)
(*                                                                         *)
(* Strings whose characters the validator inspects (task, variant, group   *)
(* and distro names) are sequences of one-character strings; strings that  *)
(* are only compared (statuses, command names) are TLA+ strings.           *)
(* A finding is [Level, Message]; Message is the tuple of the format's     *)
(* kind followed by the arguments it is formatted with.                    *)
(***************************************************************************)
EXTENDS Integers, Sequences, FiniteSets, TLC

VARIABLES
    project,     \* the *model.Project handed to the validator
    pc,          \* position of the running entry point
    allNodes,    \* allNodes / allTVs: the node slice built from the node map
    tvToTaskUnit, \* the node map the running validator built
    visited,     \* visited map of the running DFS
    stack,       \* call stack of the running recursive DFS
    todo,        \* top-level nodes / commands the running range loop has left
    errs,        \* errs of the running validator
    run,         \* which of two successive calls is running
    prevErrs,    \* what the first call returned
    call,        \* arguments of the running call
    out,         \* value returned by the last call that returns no findings
    loop,        \* position of the running loop over the s3.pull commands
    env,         \* what the validator reads from outside the project
    validationErrs, \* validationErrs / errs of the running battery
    battery,     \* the running battery and the position of its range loop
    valid,       \* locals of CheckProjectConfigurationIsValid
    parked       \* the locals of the callers that are not running

vars == <<project, pc, allNodes, tvToTaskUnit, visited, stack, todo, errs, run,
          prevErrs, call, out, loop, env, validationErrs, battery, valid, parked>>

batteryVars == <<env, validationErrs, battery, valid>>

dfsVars == <<allNodes, tvToTaskUnit, visited, stack, todo>>

-----------------------------------------------------------------------------
(* Generic helpers *)

Range(s) == {s[i] : i \in DOMAIN s}

RECURSIVE Flatten(_)
Flatten(ss) == IF ss = <<>> THEN <<>> ELSE Head(ss) \o Flatten(Tail(ss))

\* every ordering of a finite set: the orders a Go range over a map can take
Orderings(S) ==
    {s \in [1..Cardinality(S) -> S] : \A i, j \in DOMAIN s : i # j => s[i] # s[j]}

RECURSIVE SomeOrdering(_)
SomeOrdering(S) ==
    IF S = {} THEN <<>>
    ELSE LET x == CHOOSE y \in S : TRUE IN <<x>> \o SomeOrdering(S \ {x})

Contains(s, x) == \E i \in DOMAIN s : s[i] = x

-----------------------------------------------------------------------------
(* Levels, sentinels and names *)

Error == 0
Warning == 1

AllDependencies == <<"*">>
AllVariants == <<"*">>
AllStatuses == "*"
TaskSucceeded == "success"
TaskFailed == "failed"

S3PushCommandName == "s3.push"
S3PullCommandName == "s3.pull"
CreateHostCommandName == "host.create"
GenerateTasksCommandName == "generate.tasks"

EmptyName == <<>>

TV(variant, taskName) == [Variant |-> variant, TaskName |-> taskName]

Finding(level, message) == [Level |-> level, Message |-> message]

-----------------------------------------------------------------------------
(* The project model the validator reads *)

Dep(name, variant, status, patchOptional) ==
    [Name |-> name, Variant |-> variant, Status |-> status,
     PatchOptional |-> patchOptional]

\* a skip predicate is "unset", "yes" or "no" until Populate resolves it
NoSkips == [Patch |-> "unset", NonPatch |-> "unset", NonGitTag |-> "unset"]

ProjectTask(name, dependsOn, commands, skips) ==
    [Name |-> name, DependsOn |-> dependsOn, Commands |-> commands,
     Skips |-> skips, Requires |-> <<>>, Tags |-> <<>>]

EmptyProjectTask == ProjectTask(EmptyName, <<>>, <<>>, NoSkips)

BVTU(name, isGroup, distros, dependsOn, skips) ==
    [Name |-> name, IsGroup |-> isGroup, Distros |-> distros,
     DependsOn |-> dependsOn, Skips |-> skips, Variant |-> EmptyName,
     Requires |-> <<>>]

BuildVariant(name, displayName, tasks, runOn) ==
    [Name |-> name, DisplayName |-> displayName, Tasks |-> tasks,
     RunOn |-> runOn, BatchTime |-> <<>>, CronBatchTime |-> "",
     DisplayTasks |-> <<>>]

TaskGroup(name, tasks, maxHosts, setupGroup, setupTask, teardownGroup, teardownTask) ==
    [Name |-> name, Tasks |-> tasks, MaxHosts |-> maxHosts,
     SetupGroup |-> setupGroup, SetupTask |-> setupTask,
     TeardownGroup |-> teardownGroup, TeardownTask |-> teardownTask]

\* Params maps a parameter name to [IsString, Str]; Variants is the allow-list;
\* Loggers is <<>> (nil) or <<valid>>, valid telling whether IsValid accepts it
PluginCommand(command, params, variants) ==
    [Command |-> command, Params |-> params, Variants |-> variants,
     Function |-> EmptyName, Type |-> "", Loggers |-> <<>>]

Project(tasks, buildVariants, taskGroups, pre, post) ==
    [Identifier |-> <<"P">>, Tasks |-> tasks, BuildVariants |-> buildVariants,
     TaskGroups |-> taskGroups, Pre |-> pre, Post |-> post, Timeout |-> <<>>,
     Functions |-> <<>>, Loggers |-> <<>>, BatchTime |-> [q |-> 0, r |-> 0],
     CommandType |-> ""]

FindProjectTask(p, name) ==
    IF \E i \in DOMAIN p.Tasks : p.Tasks[i].Name = name
    THEN <<p.Tasks[CHOOSE i \in DOMAIN p.Tasks :
                /\ p.Tasks[i].Name = name
                /\ \A j \in 1..(i - 1) : p.Tasks[j].Name # name]>>
    ELSE <<>>

FindTaskGroup(p, name) ==
    IF \E i \in DOMAIN p.TaskGroups : p.TaskGroups[i].Name = name
    THEN <<p.TaskGroups[CHOOSE i \in DOMAIN p.TaskGroups :
                /\ p.TaskGroups[i].Name = name
                /\ \A j \in 1..(i - 1) : p.TaskGroups[j].Name # name]>>
    ELSE <<>>

GetSpecForTask(p, name) ==
    IF FindProjectTask(p, name) = <<>> THEN EmptyProjectTask
    ELSE FindProjectTask(p, name)[1]

\* overlay of the task's spec on a task unit that did not override it
Populate(bvt, pt) ==
    [bvt EXCEPT
        !.DependsOn = IF Len(bvt.DependsOn) = 0 THEN pt.DependsOn ELSE @,
        !.Requires = IF Len(bvt.Requires) = 0 THEN pt.Requires ELSE @,
        !.Skips = [k \in DOMAIN bvt.Skips |->
                      IF bvt.Skips[k] = "unset" THEN pt.Skips[k]
                      ELSE bvt.Skips[k]]]

CreateTasksFromGroup(in, p) ==
    IF FindTaskGroup(p, in.Name) = <<>> THEN <<>>
    ELSE LET tg == FindTaskGroup(p, in.Name)[1]
         IN [i \in DOMAIN tg.Tasks |->
                Populate([BVTU(tg.Tasks[i], FALSE, in.Distros, in.DependsOn,
                               in.Skips) EXCEPT !.Requires = in.Requires],
                         GetSpecForTask(p, tg.Tasks[i]))]

SkipOnPatchBuild(tu) == tu.Skips.Patch = "yes"
SkipOnNonPatchBuild(tu) == tu.Skips.NonPatch = "yes"
SkipOnNonGitTagBuild(tu) == tu.Skips.NonGitTag = "yes"

-----------------------------------------------------------------------------
(* tvToTaskUnit: the node map *)

TaskUnitsOfVariant(p, bv) ==
    LET groups == {p.TaskGroups[i].Name : i \in DOMAIN p.TaskGroups}
        tasksToAdd ==
            Flatten([i \in DOMAIN bv.Tasks |->
                IF bv.Tasks[i].Name \in groups
                THEN CreateTasksFromGroup(bv.Tasks[i], p)
                ELSE <<bv.Tasks[i]>>])
    IN [i \in DOMAIN tasksToAdd |->
           [Populate(tasksToAdd[i], GetSpecForTask(p, tasksToAdd[i].Name))
               EXCEPT !.Variant = bv.Name]]

TvToTaskUnit(p) ==
    LET units == Flatten([i \in DOMAIN p.BuildVariants |->
                     TaskUnitsOfVariant(p, p.BuildVariants[i])])
        nodes == {TV(units[i].Variant, units[i].Name) : i \in DOMAIN units}
        last(n) == CHOOSE i \in DOMAIN units :
                      /\ TV(units[i].Variant, units[i].Name) = n
                      /\ \A j \in DOMAIN units :
                            j > i => TV(units[j].Variant, units[j].Name) # n
    IN [n \in nodes |-> units[last(n)]]

\* mutant: the task units are populated in place, in the project's own lists
ProjectAfterTvToTaskUnit_InPlace(p) ==
    [p EXCEPT !.BuildVariants =
        [i \in DOMAIN p.BuildVariants |->
            [p.BuildVariants[i] EXCEPT !.Tasks =
                [j \in DOMAIN p.BuildVariants[i].Tasks |->
                    [Populate(p.BuildVariants[i].Tasks[j],
                              GetSpecForTask(p, p.BuildVariants[i].Tasks[j].Name))
                        EXCEPT !.Variant = p.BuildVariants[i].Name]]]]]

\* the project once tvToTaskUnit has returned: t.Populate and t.Variant =
\* bv.Name write to the range variable t, a copy of the task unit, so the
\* project keeps what it had
ProjectAfterTvToTaskUnit(p) == p

-----------------------------------------------------------------------------
(* dependenciesForTaskUnit *)

\* mutant: a dependency on a task of all variants leaves out the whole of the
\* current variant
NodesOfDependency_OtherVariants(tv, dep, allTVs) ==
    IF dep.Variant # AllVariants
    THEN LET depVariant == IF dep.Variant = EmptyName THEN tv.Variant
                           ELSE dep.Variant
         IN IF dep.Name = AllDependencies
            THEN SelectSeq(allTVs, LAMBDA c :
                     c.TaskName # tv.TaskName /\ c.Variant = depVariant)
            ELSE <<TV(depVariant, dep.Name)>>
    ELSE IF dep.Name # AllDependencies
         THEN SelectSeq(allTVs, LAMBDA c :
                  c.TaskName = dep.Name /\ c.Variant # tv.Variant)
         ELSE SelectSeq(allTVs, LAMBDA c : c # tv)

NodesOfDependency(tv, dep, allTVs) ==
    IF dep.Variant # AllVariants
    THEN LET depVariant == IF dep.Variant = EmptyName THEN tv.Variant
                           ELSE dep.Variant
         IN IF dep.Name = AllDependencies
            THEN SelectSeq(allTVs, LAMBDA c :
                     c.TaskName # tv.TaskName /\ c.Variant = depVariant)
            ELSE <<TV(depVariant, dep.Name)>>
    ELSE IF dep.Name # AllDependencies
         THEN SelectSeq(allTVs, LAMBDA c : c.TaskName = dep.Name /\ c # tv)
         ELSE SelectSeq(allTVs, LAMBDA c : c # tv)

\* the map from each distinct dependency to the nodes appended for it
DependenciesForTaskUnit(tv, taskUnit, allTVs) ==
    [dep \in Range(taskUnit.DependsOn) |->
        Flatten([i \in DOMAIN taskUnit.DependsOn |->
            IF taskUnit.DependsOn[i] = dep
            THEN NodesOfDependency(tv, dep, allTVs) ELSE <<>>])]

-----------------------------------------------------------------------------
(* checkDependencyGraph and dependencyCycleExists, one step per call,      *)
(* loop iteration and return of the recursion                              *)

NoFrames == <<>>

\* no caller besides the running one
NoParked == <<>>

NoLoop == [bv |-> <<>>, task |-> EmptyName, cmds |-> <<>>]

\* a distro of the catalog
Distro(id, aliases, validProjects) ==
    [Id |-> id, Aliases |-> aliases, ValidProjects |-> validProjects]

\* the distros distro.Find returns, or the error it returns instead (<<>>
\* being nil), and the project ref's TaskSync.ConfigEnabled
Env(distros, findErr, configEnabled) ==
    [distros |-> distros, findErr |-> findErr, ConfigEnabled |-> configEnabled]

NoEnv == Env(<<>>, <<>>, TRUE)

NoBattery == [name |-> "none", next |-> 0, ends |-> <<>>]

\* mutant: the findings of a check are put in front of the earlier ones
AppendFindings_InFront(validationErrors, findings) == findings \o validationErrors

\* validationErrs = append(validationErrs, projectSyntaxValidator(project)...)
AppendFindings(validationErrors, findings) == validationErrors \o findings

\* the range loop moves to the next validator; ends keeps, for each validator
\* that has returned, the length of the battery's findings at its return
NextValidator(b, findings) ==
    [b EXCEPT !.next = @ + 1, !.ends = Append(@, Len(findings))]

NoValid == [syntaxErrs |-> <<>>, semanticErrs |-> <<>>, settingsErrs |-> <<>>,
            catcher |-> <<>>]

\* a validator that walks returns its errs to the battery
ValidatorReturned ==
    /\ validationErrs' = AppendFindings(validationErrs, errs)
    /\ battery' = NextValidator(battery, validationErrs')
    /\ pc' = "CheckProjectSyntax"
    /\ errs' = <<>>
    /\ allNodes' = <<>>
    /\ tvToTaskUnit' = <<>>
    /\ visited' = <<>>
    /\ call' = <<>>
    /\ out' = <<>>
    /\ loop' = NoLoop
    /\ UNCHANGED <<project, parked, env, valid, stack, todo, run, prevErrs>>

Frame(node, deps) == [node |-> node, deps |-> deps, cur |-> <<>>]

Top == stack[Len(stack)]

TopDone == Top.cur = <<>> /\ Top.deps = {}

\* mutant: a node that is already marked is entered again
CycleVisit_Reentered(vis, node) ==
    IF node \notin DOMAIN vis THEN "missing" ELSE "enter"

\* what dependencyCycleExists does with its node before it recurses
CycleVisit(vis, node) ==
    IF node \notin DOMAIN vis THEN "missing"
    ELSE IF vis[node] THEN "cycle"
    ELSE "enter"

\* mutant: the two error branches exchanged
CycleErrorKind_Swapped(outcome) ==
    IF outcome = "missing" THEN "dependency is part of a dependency cycle"
    ELSE "dependency is not present in the project config"

CycleErrorKind(outcome) ==
    IF outcome = "missing" THEN "dependency is not present in the project config"
    ELSE "dependency is part of a dependency cycle"

\* the finding checkDependencyGraph appends for the walk started at top
DependencyError(top, outcome, node) ==
    Finding(Error, <<"dependency error for task", top.TaskName,
                     CycleErrorKind(outcome), node>>)

\* a call of dependencyCycleExists(node) made while frames is the stack of
\* its callers and top is the node the walk started from
CycleCall(node, top, frames) ==
    LET outcome == CycleVisit(visited, node)
        unit == tvToTaskUnit[node]
    IN IF outcome = "enter"
       THEN /\ visited' = [visited EXCEPT ![node] = TRUE]
            /\ stack' = Append(frames,
                   Frame(node, DOMAIN DependenciesForTaskUnit(node, unit, allNodes)))
            /\ errs' = errs
       ELSE \* the error is returned through every caller; nothing is cleared
            /\ visited' = visited
            /\ stack' = NoFrames
            /\ errs' = Append(errs, DependencyError(top, outcome, node))

checkDependencyGraph ==
    /\ pc = "checkDependencyGraph"
    /\ tvToTaskUnit' = TvToTaskUnit(project)
    /\ \E order \in Orderings(DOMAIN tvToTaskUnit') : allNodes' = order
    /\ visited' = [n \in DOMAIN tvToTaskUnit' |-> FALSE]
    /\ todo' = DOMAIN tvToTaskUnit'
    /\ errs' = <<>>
    /\ stack' = NoFrames
    /\ pc' = "dependencyCycleExists"
    /\ project' = ProjectAfterTvToTaskUnit(project)
    /\ UNCHANGED <<parked, batteryVars, loop, run, prevErrs, call, out>>

\* for node := range tvToTaskUnit { dependencyCycleExists(node, ...) }
cycleTopLevel ==
    /\ pc = "dependencyCycleExists"
    /\ stack = NoFrames
    /\ \E node \in todo :
          /\ todo' = todo \ {node}
          /\ CycleCall(node, node, NoFrames)
    /\ UNCHANGED <<project, parked, batteryVars, loop, pc, allNodes, tvToTaskUnit, run, prevErrs, call, out>>

\* for _, depNodes := range depsToNodes: the next dependency of the map
cycleNextDependency ==
    /\ pc = "dependencyCycleExists"
    /\ stack # NoFrames
    /\ Top.cur = <<>>
    /\ \E dep \in Top.deps :
          stack' = [stack EXCEPT ![Len(stack)] =
              [@ EXCEPT !.deps = @ \ {dep},
                        !.cur = DependenciesForTaskUnit(Top.node,
                                    tvToTaskUnit[Top.node], allNodes)[dep]]]
    /\ UNCHANGED <<project, parked, batteryVars, loop, pc, allNodes, tvToTaskUnit, visited, todo, errs, run, prevErrs, call, out>>

\* for _, dn := range depNodes { dependencyCycleExists(dn, ...) }
cycleRecurse ==
    /\ pc = "dependencyCycleExists"
    /\ stack # NoFrames
    /\ Top.cur # <<>>
    /\ CycleCall(Head(Top.cur), stack[1].node,
                 [stack EXCEPT ![Len(stack)] = [@ EXCEPT !.cur = Tail(@)]])
    /\ UNCHANGED <<project, parked, batteryVars, loop, pc, allNodes, tvToTaskUnit, todo, run, prevErrs, call, out>>

\* visited[node] = false; return nil
cycleReturn ==
    /\ pc = "dependencyCycleExists"
    /\ stack # NoFrames
    /\ TopDone
    /\ visited' = [visited EXCEPT ![Top.node] = FALSE]
    /\ stack' = SubSeq(stack, 1, Len(stack) - 1)
    /\ UNCHANGED <<project, parked, batteryVars, loop, pc, allNodes, tvToTaskUnit, todo, errs, run, prevErrs, call, out>>

\* return errs; the caller then calls checkDependencyGraph a second time
dependencyGraphChecked ==
    /\ pc = "dependencyCycleExists"
    /\ stack = NoFrames
    /\ todo = {}
    /\ IF battery.name # "none"
       THEN ValidatorReturned
       ELSE /\ IF run = 1
               THEN /\ prevErrs' = errs
                    /\ run' = 2
                    /\ pc' = "checkDependencyGraph"
               ELSE /\ pc' = "done"
                    /\ UNCHANGED <<prevErrs, run>>
            /\ UNCHANGED <<project, parked, batteryVars, loop, allNodes, tvToTaskUnit,
                           visited, stack, todo, errs, call, out>>

-----------------------------------------------------------------------------
(* Projects of the dependency-graph specification: tasks a, b, c on        *)
(* variant v1, with the first DepBound candidate dependencies switched on  *)
(* or off                                                                  *)

tA == <<"a">>
tB == <<"b">>
tC == <<"c">>
tX == <<"x">>
v1 == <<"v", "1">>
v2 == <<"v", "2">>
d1 == <<"d", "1">>

DepBound == 6

CandidateDeps == <<
    [of |-> tA, dep |-> Dep(tB, EmptyName, "", FALSE)],
    [of |-> tB, dep |-> Dep(tA, EmptyName, "", FALSE)],
    [of |-> tB, dep |-> Dep(tC, v1, "", FALSE)],
    [of |-> tC, dep |-> Dep(tA, EmptyName, "", FALSE)],
    [of |-> tA, dep |-> Dep(tX, EmptyName, "", FALSE)],
    [of |-> tC, dep |-> Dep(AllDependencies, EmptyName, "", FALSE)],
    [of |-> tA, dep |-> Dep(tA, v1, "", FALSE)],
    [of |-> tA, dep |-> Dep(tC, EmptyName, "", FALSE)],
    [of |-> tB, dep |-> Dep(AllDependencies, AllVariants, "", FALSE)] >>

DepsOf(task, chosen) ==
    LET picked == SelectSeq(CandidateDeps, LAMBDA c : c.of = task /\ c \in chosen)
    IN [i \in DOMAIN picked |-> picked[i].dep]

PlainUnit(name) == BVTU(name, FALSE, <<d1>>, <<>>, NoSkips)

GraphProject(chosen) ==
    Project(<<ProjectTask(tA, DepsOf(tA, chosen), <<>>, NoSkips),
              ProjectTask(tB, DepsOf(tB, chosen), <<>>, NoSkips),
              ProjectTask(tC, DepsOf(tC, chosen), <<>>, NoSkips)>>,
            <<BuildVariant(v1, v1, <<PlainUnit(tA), PlainUnit(tB), PlainUnit(tC)>>, <<>>)>>,
            <<>>, <<>>, <<>>)

GraphProjects ==
    {GraphProject(chosen) :
        chosen \in SUBSET {CandidateDeps[i] :
            i \in 1..(IF DepBound < Len(CandidateDeps) THEN DepBound
                      ELSE Len(CandidateDeps))}}

\* scenario S2: variant v1 with tasks a and b, b depending on a and a on b
ScenarioS2 ==
    Project(<<ProjectTask(tA, <<Dep(tB, EmptyName, "", FALSE)>>, <<>>, NoSkips),
              ProjectTask(tB, <<Dep(tA, EmptyName, "", FALSE)>>, <<>>, NoSkips)>>,
            <<BuildVariant(v1, v1, <<PlainUnit(tA), PlainUnit(tB)>>, <<>>)>>,
            <<>>, <<>>, <<>>)

InitGraph ==
    /\ parked = NoParked
    /\ project \in GraphProjects \cup {ScenarioS2}
    /\ pc = "checkDependencyGraph"
    /\ allNodes = <<>>
    /\ tvToTaskUnit = <<>>
    /\ visited = <<>>
    /\ stack = NoFrames
    /\ todo = {}
    /\ errs = <<>>
    /\ run = 1
    /\ prevErrs = <<>>
    /\ call = <<>>
    /\ out = <<>>
    /\ loop = NoLoop
    /\ env = NoEnv
    /\ validationErrs = <<>>
    /\ battery = NoBattery
    /\ valid = NoValid

NextGraph ==
    \/ checkDependencyGraph
    \/ cycleTopLevel
    \/ cycleNextDependency
    \/ cycleRecurse
    \/ cycleReturn
    \/ dependencyGraphChecked

SpecGraph == InitGraph /\ [][NextGraph]_vars

-----------------------------------------------------------------------------
(* ValidationErrors.AtLevel *)

\* mutant: the level taken as a minimum severity
AtLevel_AtLeast(v, level) == SelectSeq(v, LAMBDA err : err.Level <= level)

AtLevel(v, level) == SelectSeq(v, LAMBDA err : err.Level = level)

-----------------------------------------------------------------------------
(* checkAllDependenciesSpec *)

AllDependenciesError(p, task) ==
    Finding(Error, <<"task contains the all dependencies specification and other explicit dependencies or duplicate variants",
                     task.Name, p.Identifier>>)

\* the loop over task.DependsOn, coveredVariants being the variants covered so far
RECURSIVE AllDependenciesScan(_, _, _, _)
AllDependenciesScan(p, task, deps, coveredVariants) ==
    IF deps = <<>> THEN <<>>
    ELSE LET dependency == Head(deps)
         IN IF dependency.Name = AllDependencies
            THEN (IF dependency.Variant = EmptyName
                      \/ dependency.Variant \in coveredVariants
                  THEN <<AllDependenciesError(p, task)>> ELSE <<>>)
                 \o AllDependenciesScan(p, task, Tail(deps),
                        coveredVariants \cup {dependency.Variant})
            ELSE AllDependenciesScan(p, task, Tail(deps), coveredVariants)

checkAllDependenciesSpec(p) ==
    Flatten([i \in DOMAIN p.Tasks |->
        IF Len(p.Tasks[i].DependsOn) > 1
        THEN AllDependenciesScan(p, p.Tasks[i], p.Tasks[i].DependsOn, {})
        ELSE <<>>])

-----------------------------------------------------------------------------
(* validateDuplicateBVTasks and checkOrAddTask *)

DuplicateTaskError(task, variant) ==
    Finding(Error, <<"task is listed more than once, likely through a task group",
                     task, variant>>)

\* mutant: the task is never recorded as found
checkOrAddTask_NoInsert(task, variant, tasksFound) ==
    IF task \in tasksFound
    THEN [err |-> <<DuplicateTaskError(task, variant)>>, tasksFound |-> tasksFound]
    ELSE [err |-> <<>>, tasksFound |-> tasksFound]

checkOrAddTask(task, variant, tasksFound) ==
    IF task \in tasksFound
    THEN [err |-> <<DuplicateTaskError(task, variant)>>, tasksFound |-> tasksFound]
    ELSE [err |-> <<>>, tasksFound |-> tasksFound \cup {task}]

\* the task names one task unit of a build variant is checked under
NamesOfUnit(p, t) ==
    IF t.IsGroup
    THEN (IF FindTaskGroup(p, t.Name) = <<>> THEN <<>>
          ELSE FindTaskGroup(p, t.Name)[1].Tasks)
    ELSE <<t.Name>>

RECURSIVE DuplicateScan(_, _, _)
DuplicateScan(names, variant, tasksFound) ==
    IF names = <<>> THEN <<>>
    ELSE LET r == checkOrAddTask(Head(names), variant, tasksFound)
         IN r.err \o DuplicateScan(Tail(names), variant, r.tasksFound)

validateDuplicateBVTasks(p) ==
    Flatten([i \in DOMAIN p.BuildVariants |->
        LET bv == p.BuildVariants[i]
        IN DuplicateScan(Flatten([j \in DOMAIN bv.Tasks |-> NamesOfUnit(p, bv.Tasks[j])]),
                         bv.Name, {})])

-----------------------------------------------------------------------------
(* Call-count caps *)

CountCommand(cmds, find) == Len(SelectSeq(cmds, LAMBDA c : c.Command = find))

RECURSIVE SumSeq(_)
SumSeq(ns) == IF ns = <<>> THEN 0 ELSE Head(ns) + SumSeq(Tail(ns))

\* task name -> number of calls, for the tasks that call the command
TasksThatCallCommand(p, find) ==
    LET calls(name) == SumSeq([i \in DOMAIN p.Tasks |->
                           IF p.Tasks[i].Name = name
                           THEN CountCommand(p.Tasks[i].Commands, find) ELSE 0])
    IN [name \in {p.Tasks[i].Name : i \in {j \in DOMAIN p.Tasks :
                      CountCommand(p.Tasks[j].Commands, find) > 0}} |-> calls(name)]

TimesCalledError(bvName, taskName, commandName, times, count, level) ==
    Finding(level, <<"build variant with task may only call command n time(s) but calls it m time(s)",
                     bvName, taskName, commandName, times, count>>)

\* mutant: a task exactly at the cap is reported too
validateTimesCalledPerTask_AtCap(p, ts, commandName, times, level) ==
    Flatten([i \in DOMAIN p.BuildVariants |->
        LET bv == p.BuildVariants[i]
        IN Flatten([j \in DOMAIN bv.Tasks |->
               LET t == bv.Tasks[j]
               IN IF t.Name \in DOMAIN ts /\ ts[t.Name] >= times
                  THEN <<TimesCalledError(bv.Name, t.Name, commandName, times,
                                          ts[t.Name], level)>>
                  ELSE <<>>])])

validateTimesCalledPerTask(p, ts, commandName, times, level) ==
    Flatten([i \in DOMAIN p.BuildVariants |->
        LET bv == p.BuildVariants[i]
        IN Flatten([j \in DOMAIN bv.Tasks |->
               LET t == bv.Tasks[j]
               IN IF t.Name \in DOMAIN ts /\ ts[t.Name] > times
                  THEN <<TimesCalledError(bv.Name, t.Name, commandName, times,
                                          ts[t.Name], level)>>
                  ELSE <<>>])])

TimesCalledTotal(p, ts) ==
    SumSeq(Flatten([i \in DOMAIN p.BuildVariants |->
        [j \in DOMAIN p.BuildVariants[i].Tasks |->
            IF p.BuildVariants[i].Tasks[j].Name \in DOMAIN ts
            THEN ts[p.BuildVariants[i].Tasks[j].Name] ELSE 0]]))

\* mutant: a total exactly at the cap is reported too
validateTimesCalledTotal_AtCap(p, ts, commandName, times) ==
    IF TimesCalledTotal(p, ts) >= times
    THEN <<Finding(Error, <<"project config may only call command n time(s) but it is called m time(s)",
                            commandName, times, TimesCalledTotal(p, ts)>>)>>
    ELSE <<>>

validateTimesCalledTotal(p, ts, commandName, times) ==
    IF TimesCalledTotal(p, ts) > times
    THEN <<Finding(Error, <<"project config may only call command n time(s) but it is called m time(s)",
                            commandName, times, TimesCalledTotal(p, ts)>>)>>
    ELSE <<>>

validateCreateHosts(p) ==
    LET ts == TasksThatCallCommand(p, CreateHostCommandName)
    IN validateTimesCalledPerTask(p, ts, CreateHostCommandName, 3, Error)
       \o validateTimesCalledTotal(p, ts, CreateHostCommandName, 50)

validateGenerateTasks(p) ==
    validateTimesCalledPerTask(p, TasksThatCallCommand(p, GenerateTasksCommandName),
                               GenerateTasksCommandName, 1, Error)

\* the three calls of validateTimesCalledPerTask the validator makes
PerTaskCallSites ==
    {[commandName |-> CreateHostCommandName, times |-> 3, level |-> Error],
     [commandName |-> GenerateTasksCommandName, times |-> 1, level |-> Error],
     [commandName |-> S3PushCommandName, times |-> 1, level |-> Warning]}

-----------------------------------------------------------------------------
(* Validators that are pure functions of the project: one call each        *)

Returned(validator, findings) ==
    /\ pc = "idle"
    /\ pc' = validator
    /\ errs' = findings
    /\ UNCHANGED <<project, parked, batteryVars, loop, dfsVars, run, prevErrs, out>>

Call_checkAllDependenciesSpec ==
    /\ Returned("checkAllDependenciesSpec", checkAllDependenciesSpec(project))
    /\ UNCHANGED call

Call_validateDuplicateBVTasks ==
    /\ Returned("validateDuplicateBVTasks", validateDuplicateBVTasks(project))
    /\ UNCHANGED call

Call_validateCreateHosts ==
    /\ Returned("validateCreateHosts", validateCreateHosts(project))
    /\ UNCHANGED call

Call_validateGenerateTasks ==
    /\ Returned("validateGenerateTasks", validateGenerateTasks(project))
    /\ UNCHANGED call

Call_validateTimesCalledPerTask ==
    \E site \in PerTaskCallSites :
        /\ call' = site
        /\ Returned("validateTimesCalledPerTask",
               validateTimesCalledPerTask(project,
                   TasksThatCallCommand(project, site.commandName),
                   site.commandName, site.times, site.level))

\* v.AtLevel(level) on the findings a validator returned
Call_AtLevel ==
    /\ pc = "returned"
    /\ \E level \in {Error, Warning} :
          /\ call' = [level |-> level]
          /\ errs' = AtLevel(errs, level)
    /\ prevErrs' = errs
    /\ pc' = "AtLevel"
    /\ UNCHANGED <<project, parked, batteryVars, loop, dfsVars, run, out>>

\* v.AtLevel(level).AtLevel(level)
Call_AtLevelAgain ==
    /\ pc = "AtLevel"
    /\ out' = errs
    /\ errs' = AtLevel(errs, call.level)
    /\ pc' = "AtLevelAgain"
    /\ UNCHANGED <<project, parked, batteryVars, loop, dfsVars, run, prevErrs, call>>

-----------------------------------------------------------------------------
(* Projects and findings of the pure-validator specifications *)

tG == <<"g">>
tH == <<"h">>

BoundedSeqs(S, n) == UNION {[1..k -> S] : k \in 0..n}

RECURSIVE Repeat(_, _)
Repeat(x, n) == IF n = 0 THEN <<>> ELSE <<x>> \o Repeat(x, n - 1)

Cmd(name) == PluginCommand(name, <<>>, <<>>)

\* task a with every dependency list of up to MaxDepList entries
MaxDepList == 3

DepAlphabet ==
    {Dep(AllDependencies, EmptyName, "", FALSE), Dep(AllDependencies, v1, "", FALSE),
     Dep(AllDependencies, v2, "", FALSE), Dep(tB, EmptyName, "", FALSE),
     Dep(tB, v1, "", FALSE)}

DepListProject(deps) ==
    Project(<<ProjectTask(tA, deps, <<>>, NoSkips),
              ProjectTask(tB, <<>>, <<>>, NoSkips)>>,
            <<BuildVariant(v1, v1, <<PlainUnit(tA), PlainUnit(tB)>>, <<>>),
              BuildVariant(v2, v2, <<PlainUnit(tA), PlainUnit(tB)>>, <<>>)>>,
            <<>>, <<>>, <<>>)

DepListProjects == {DepListProject(deps) : deps \in BoundedSeqs(DepAlphabet, MaxDepList)}

\* variant v1 with every list of up to MaxUnits task units, among them the
\* task group g and the undefined task group h; variant v2 runs task a
MaxUnits == 3

GroupUnit(name) == BVTU(name, TRUE, <<d1>>, <<>>, NoSkips)

UnitAlphabet == {PlainUnit(tA), PlainUnit(tB), GroupUnit(tG), GroupUnit(tH)}

GroupMembers == {<<tB>>, <<tA, tB>>, <<tB, tB>>}

UnitListProject(units, members) ==
    Project(<<ProjectTask(tA, <<>>, <<>>, NoSkips),
              ProjectTask(tB, <<>>, <<>>, NoSkips)>>,
            <<BuildVariant(v1, v1, units, <<>>),
              BuildVariant(v2, v2, <<PlainUnit(tA)>>, <<>>)>>,
            <<TaskGroup(tG, members, 1, <<>>, <<>>, <<>>, <<>>)>>, <<>>, <<>>)

UnitListProjects ==
    {UnitListProject(units, members) :
        units \in BoundedSeqs(UnitAlphabet, MaxUnits), members \in GroupMembers}

\* task a calls each metered command 0..MaxCalls times and runs on one or two
\* variants; task b calls each exactly as often as its cap allows
MaxCalls == 4

CallCountProject(nHost, nGenerate, nPush, onBoth) ==
    Project(<<ProjectTask(tA, <<>>,
                  Repeat(Cmd(CreateHostCommandName), nHost)
                  \o Repeat(Cmd(GenerateTasksCommandName), nGenerate)
                  \o Repeat(Cmd(S3PushCommandName), nPush), NoSkips),
              ProjectTask(tB, <<>>,
                  Repeat(Cmd(CreateHostCommandName), 3)
                  \o <<Cmd(GenerateTasksCommandName), Cmd(S3PushCommandName)>>,
                  NoSkips),
              ProjectTask(tC, <<>>, <<>>, NoSkips)>>,
            <<BuildVariant(v1, v1, <<PlainUnit(tA), PlainUnit(tB)>>, <<>>),
              BuildVariant(v2, v2,
                  IF onBoth THEN <<PlainUnit(tB), PlainUnit(tA)>>
                  ELSE <<PlainUnit(tC)>>, <<>>)>>,
            <<>>, <<>>, <<>>)

CallCountProjects ==
    {CallCountProject(nHost, nGenerate, nPush, onBoth) :
        nHost \in 0..MaxCalls, nGenerate \in 0..MaxCalls, nPush \in 0..MaxCalls,
        onBoth \in BOOLEAN}

\* task a calls createHost 0..MaxTotalCalls times and is listed up to twice on
\* each of two variants; task b calls nothing
MaxTotalCalls == 26

TotalProject(nHost, onV1, onV2) ==
    Project(<<ProjectTask(tA, <<>>, Repeat(Cmd(CreateHostCommandName), nHost), NoSkips),
              ProjectTask(tB, <<>>, <<>>, NoSkips)>>,
            <<BuildVariant(v1, v1, Repeat(PlainUnit(tA), onV1) \o <<PlainUnit(tB)>>, <<>>),
              BuildVariant(v2, v2, Repeat(PlainUnit(tA), onV2) \o <<PlainUnit(tB)>>, <<>>)>>,
            <<>>, <<>>, <<>>)

TotalProjects ==
    {TotalProject(nHost, onV1, onV2) :
        nHost \in 0..MaxTotalCalls, onV1 \in 0..2, onV2 \in 0..2}

\* a task whose name is any string of up to MaxNameLen characters drawn
\* from a letter, '|', space, tab and newline, next to task b
MaxNameLen == 3

NameAlphabet == {"a", "|", " ", "\t", "\n"}

NameProject(name) ==
    Project(<<ProjectTask(name, <<>>, <<>>, NoSkips),
              ProjectTask(tB, <<>>, <<>>, NoSkips)>>,
            <<BuildVariant(v1, v1, <<PlainUnit(tB)>>, <<>>)>>,
            <<>>, <<>>, <<>>)

NameProjects == {NameProject(name) : name \in BoundedSeqs(NameAlphabet, MaxNameLen)}

\* task group g of 0..MaxGroupTasks tasks with MaxHosts from -1 up to
\* MaxGroupTasks; task a depends on task b or on nothing
MaxGroupTasks == 4

GroupProject(nTasks, maxHosts, aDeps) ==
    Project(<<ProjectTask(tA, aDeps, <<>>, NoSkips),
              ProjectTask(tB, <<>>, <<>>, NoSkips),
              ProjectTask(tC, <<>>, <<>>, NoSkips)>>,
            <<BuildVariant(v1, v1, <<GroupUnit(tG)>>, <<>>)>>,
            <<TaskGroup(tG, SubSeq(<<tA, tB, tC, tA>> \o Repeat(tB, nTasks), 1, nTasks),
                        maxHosts, <<>>, <<>>, <<>>, <<>>)>>, <<>>, <<>>)

GroupProjects ==
    {GroupProject(nTasks, maxHosts, aDeps) :
        nTasks \in 0..MaxGroupTasks, maxHosts \in (0 - 1)..MaxGroupTasks,
        aDeps \in {<<>>, <<Dep(tB, EmptyName, "", FALSE)>>}}

\* task a on variant v1 with one dependency of every shape: on a task, on
\* itself, on an undefined task or on all tasks; on its own variant, on a
\* named variant or on all variants. Task b runs on v2 and may run on v1,
\* task a may run on v2 as well
ExpansionNames == {tA, tB, tX, AllDependencies}

ExpansionVariants == {EmptyName, v1, v2, AllVariants}

ExpansionProject(dep, bOnV1, aOnV2) ==
    Project(<<ProjectTask(tA, <<dep>>, <<>>, NoSkips),
              ProjectTask(tB, <<>>, <<>>, NoSkips)>>,
            <<BuildVariant(v1, v1, <<PlainUnit(tA)>>
                                   \o (IF bOnV1 THEN <<PlainUnit(tB)>> ELSE <<>>), <<>>),
              BuildVariant(v2, v2, (IF aOnV2 THEN <<PlainUnit(tA)>> ELSE <<>>)
                                   \o <<PlainUnit(tB)>>, <<>>)>>,
            <<>>, <<>>, <<>>)

ExpansionProjects ==
    {ExpansionProject(Dep(name, variant, "", FALSE), bOnV1, aOnV2) :
        name \in ExpansionNames, variant \in ExpansionVariants,
        bOnV1 \in BOOLEAN, aOnV2 \in BOOLEAN}

\* one to MaxVariants build variants, each named v1, v2 or 'v|' and shown
\* under no display name, under the name v1 or under the name nightly
MaxVariants == 3

VariantNames == {v1, v2, <<"v", "|">>}

VariantDisplayNames == {EmptyName, v1, <<"nightly">>}

VariantNameProject(bvs) ==
    Project(<<ProjectTask(tA, <<>>, <<>>, NoSkips)>>, bvs, <<>>, <<>>, <<>>)

VariantNameProjects ==
    {VariantNameProject(bvs) :
        bvs \in BoundedSeqs({BuildVariant(name, displayName, <<>>, <<>>) :
                                name \in VariantNames,
                                displayName \in VariantDisplayNames}, MaxVariants)
                \ {<<>>}}

InitChecks ==
    /\ parked = NoParked
    /\ project \in DepListProjects \cup UnitListProjects \cup CallCountProjects
                     \cup TotalProjects \cup NameProjects
                     \cup GroupProjects \cup ExpansionProjects
                     \cup VariantNameProjects
    /\ pc = "idle"
    /\ allNodes = <<>>
    /\ tvToTaskUnit = <<>>
    /\ visited = <<>>
    /\ stack = NoFrames
    /\ todo = {}
    /\ errs = <<>>
    /\ run = 1
    /\ prevErrs = <<>>
    /\ call = <<>>
    /\ out = <<>>
    /\ loop = NoLoop
    /\ env = NoEnv
    /\ validationErrs = <<>>
    /\ battery = NoBattery
    /\ valid = NoValid

\* every sequence of up to MaxFindings findings, returned by some validator
MaxFindings == 3

FindingAlphabet ==
    {Finding(level, <<message>>) :
        level \in {Error, Warning}, message \in {"m1", "m2"}}

InitFindings ==
    /\ parked = NoParked
    /\ project = GraphProject({})
    /\ pc = "returned"
    /\ errs \in BoundedSeqs(FindingAlphabet, MaxFindings)
    /\ allNodes = <<>>
    /\ tvToTaskUnit = <<>>
    /\ visited = <<>>
    /\ stack = NoFrames
    /\ todo = {}
    /\ run = 1
    /\ prevErrs = <<>>
    /\ call = <<>>
    /\ out = <<>>
    /\ loop = NoLoop
    /\ env = NoEnv
    /\ validationErrs = <<>>
    /\ battery = NoBattery
    /\ valid = NoValid

NextFindings == Call_AtLevel \/ Call_AtLevelAgain

SpecFindings == InitFindings /\ [][NextFindings]_vars

-----------------------------------------------------------------------------
(* bvsWithTasksThatCallCommand *)

RunOnVariant(c, bv) == Len(c.Variants) = 0 \/ Contains(c.Variants, bv)

CommandsRunOnBV(cmds, cmd, bv) ==
    SelectSeq(cmds, LAMBDA c : c.Command = cmd /\ RunOnVariant(c, bv))

\* err is set when the project does not define the task
CommandsRunOnTV(p, tv, cmd) ==
    IF FindProjectTask(p, tv.TaskName) = <<>>
    THEN [cmds |-> <<>>, err |-> TRUE]
    ELSE [cmds |-> CommandsRunOnBV(FindProjectTask(p, tv.TaskName)[1].Commands,
                                   cmd, tv.Variant),
          err |-> FALSE]

\* mutant: the pre and post commands are added for the tasks of a task group
\* as well
CmdsOfTaskUnit_PreAndPostForGroups(p, bv, bvtu, cmd) ==
    LET preAndPostCmds == CommandsRunOnBV(p.Pre, cmd, bv.Name)
                          \o CommandsRunOnBV(p.Post, cmd, bv.Name)
        add(taskUnit, cmds) == [bv |-> bv.Name, taskUnit |-> taskUnit, cmds |-> cmds]
        own(name) == CommandsRunOnBV(FindProjectTask(p, name)[1].Commands, cmd, bv.Name)
    IN IF bvtu.IsGroup
       THEN IF FindTaskGroup(p, bvtu.Name) = <<>>
            THEN [adds |-> <<>>,
                  errors |-> << <<"cannot find definition of task group used in build variant",
                                  bvtu.Name, bv.Name>> >>]
            ELSE LET tg == FindTaskGroup(p, bvtu.Name)[1]
                     setupAndTeardownCmds ==
                         CommandsRunOnBV(tg.SetupGroup, cmd, bv.Name)
                         \o CommandsRunOnBV(tg.SetupTask, cmd, bv.Name)
                         \o CommandsRunOnBV(tg.TeardownGroup, cmd, bv.Name)
                         \o CommandsRunOnBV(tg.TeardownTask, cmd, bv.Name)
                     tgTasks == CreateTasksFromGroup(bvtu, p)
                 IN [adds |-> Flatten([i \in DOMAIN tgTasks |->
                         <<add(tgTasks[i].Name, preAndPostCmds),
                           add(tgTasks[i].Name, setupAndTeardownCmds)>>
                         \o (IF FindProjectTask(p, tgTasks[i].Name) # <<>>
                             THEN <<add(tgTasks[i].Name, own(tgTasks[i].Name))>>
                             ELSE <<>>)]),
                     errors |-> Flatten([i \in DOMAIN tgTasks |->
                         IF FindProjectTask(p, tgTasks[i].Name) # <<>> THEN <<>>
                         ELSE << <<"cannot find definition of task used in task group",
                                   tgTasks[i].Name, tg.Name>> >>])]
       ELSE IF FindProjectTask(p, bvtu.Name) = <<>>
            THEN [adds |-> <<add(bvtu.Name, preAndPostCmds)>>,
                  errors |-> << <<"cannot find definition of task", bvtu.Name>> >>]
            ELSE [adds |-> <<add(bvtu.Name, preAndPostCmds),
                             add(bvtu.Name, own(bvtu.Name))>>,
                  errors |-> <<>>]

\* the calls of addCmdsForTaskInBV and of catcher.Errorf made for one task
\* unit of a build variant
CmdsOfTaskUnit(p, bv, bvtu, cmd) ==
    LET preAndPostCmds == CommandsRunOnBV(p.Pre, cmd, bv.Name)
                          \o CommandsRunOnBV(p.Post, cmd, bv.Name)
        add(taskUnit, cmds) == [bv |-> bv.Name, taskUnit |-> taskUnit, cmds |-> cmds]
        own(name) == CommandsRunOnBV(FindProjectTask(p, name)[1].Commands, cmd, bv.Name)
    IN IF bvtu.IsGroup
       THEN IF FindTaskGroup(p, bvtu.Name) = <<>>
            THEN [adds |-> <<>>,
                  errors |-> << <<"cannot find definition of task group used in build variant",
                                  bvtu.Name, bv.Name>> >>]
            ELSE LET tg == FindTaskGroup(p, bvtu.Name)[1]
                     setupAndTeardownCmds ==
                         CommandsRunOnBV(tg.SetupGroup, cmd, bv.Name)
                         \o CommandsRunOnBV(tg.SetupTask, cmd, bv.Name)
                         \o CommandsRunOnBV(tg.TeardownGroup, cmd, bv.Name)
                         \o CommandsRunOnBV(tg.TeardownTask, cmd, bv.Name)
                     tgTasks == CreateTasksFromGroup(bvtu, p)
                 IN [adds |-> Flatten([i \in DOMAIN tgTasks |->
                         <<add(tgTasks[i].Name, setupAndTeardownCmds)>>
                         \o (IF FindProjectTask(p, tgTasks[i].Name) # <<>>
                             THEN <<add(tgTasks[i].Name, own(tgTasks[i].Name))>>
                             ELSE <<>>)]),
                     errors |-> Flatten([i \in DOMAIN tgTasks |->
                         IF FindProjectTask(p, tgTasks[i].Name) # <<>> THEN <<>>
                         ELSE << <<"cannot find definition of task used in task group",
                                   tgTasks[i].Name, tg.Name>> >>])]
       ELSE IF FindProjectTask(p, bvtu.Name) = <<>>
            THEN [adds |-> <<add(bvtu.Name, preAndPostCmds)>>,
                  errors |-> << <<"cannot find definition of task", bvtu.Name>> >>]
            ELSE [adds |-> <<add(bvtu.Name, preAndPostCmds),
                             add(bvtu.Name, own(bvtu.Name))>>,
                  errors |-> <<>>]

\* map: (build variant, task) -> the matching commands appended for it;
\* err: what the catcher resolves to, <<>> being nil
bvsWithTasksThatCallCommand(p, cmd) ==
    LET perUnit == Flatten([i \in DOMAIN p.BuildVariants |->
                       [j \in DOMAIN p.BuildVariants[i].Tasks |->
                           CmdsOfTaskUnit(p, p.BuildVariants[i],
                                          p.BuildVariants[i].Tasks[j], cmd)]])
        adds == SelectSeq(Flatten([k \in DOMAIN perUnit |-> perUnit[k].adds]),
                          LAMBDA a : Len(a.cmds) # 0)
        errors == Flatten([k \in DOMAIN perUnit |-> perUnit[k].errors])
    IN [map |-> [tv \in {TV(adds[k].bv, adds[k].taskUnit) : k \in DOMAIN adds} |->
                    Flatten([k \in DOMAIN adds |->
                        IF TV(adds[k].bv, adds[k].taskUnit) = tv
                        THEN adds[k].cmds ELSE <<>>])],
        err |-> errors]

-----------------------------------------------------------------------------
(* parseS3PullParameters *)

\* a parameter value: a string, or a value of another type
StringParam(s) == [IsString |-> TRUE, Str |-> s]
OtherParam == [IsString |-> FALSE, Str |-> EmptyName]

Parsed(task, bv, err) == [task |-> task, bv |-> bv, err |-> err]

\* mutant: a from_build_variant that is not a string is taken as absent
parseS3PullParameters_VariantUnchecked(c) ==
    IF DOMAIN c.Params = {}
    THEN Parsed(EmptyName, EmptyName, <<"command has no parameters", c.Command>>)
    ELSE IF "task" \notin DOMAIN c.Params
    THEN Parsed(EmptyName, EmptyName,
                <<"command needs parameter defined", c.Command, "task">>)
    ELSE IF ~c.Params["task"].IsString
    THEN Parsed(EmptyName, EmptyName,
                <<"command was supplied parameter but is not a string argument",
                  c.Command, "task">>)
    ELSE IF "from_build_variant" \notin DOMAIN c.Params
            \/ ~c.Params["from_build_variant"].IsString
    THEN Parsed(c.Params["task"].Str, EmptyName, <<>>)
    ELSE Parsed(c.Params["task"].Str, c.Params["from_build_variant"].Str, <<>>)

parseS3PullParameters(c) ==
    IF DOMAIN c.Params = {}
    THEN Parsed(EmptyName, EmptyName, <<"command has no parameters", c.Command>>)
    ELSE IF "task" \notin DOMAIN c.Params
    THEN Parsed(EmptyName, EmptyName,
                <<"command needs parameter defined", c.Command, "task">>)
    ELSE IF ~c.Params["task"].IsString
    THEN Parsed(EmptyName, EmptyName,
                <<"command was supplied parameter but is not a string argument",
                  c.Command, "task">>)
    ELSE IF "from_build_variant" \notin DOMAIN c.Params
    THEN Parsed(c.Params["task"].Str, EmptyName, <<>>)
    ELSE IF ~c.Params["from_build_variant"].IsString
    THEN Parsed(EmptyName, EmptyName,
                <<"command was supplied parameter but is not a string argument",
                  c.Command, "from_build_variant">>)
    ELSE Parsed(c.Params["task"].Str, c.Params["from_build_variant"].Str, <<>>)

-----------------------------------------------------------------------------
(* validateTaskSyncCommands, validateTVDependsOnTV and dependencyMustRun,  *)
(* one step per s3.pull command, call, loop iteration and return           *)

\* depReqs without lastDepNeedsSuccess, which each frame of the walk carries
DependencyRequirements(sourceTask) ==
    [requireOnPatches |-> ~SkipOnPatchBuild(sourceTask)
                          /\ ~SkipOnNonGitTagBuild(sourceTask),
     requireOnNonPatches |-> ~SkipOnNonPatchBuild(sourceTask)
                             /\ ~SkipOnNonGitTagBuild(sourceTask),
     requireOnGitTag |-> ~SkipOnNonPatchBuild(sourceTask)]

RequiredModes(reqs) ==
    IF reqs.requireOnPatches /\ reqs.requireOnNonPatches
    THEN " for both patches and non-patches"
    ELSE IF reqs.requireOnPatches THEN " for patches"
    ELSE IF reqs.requireOnNonPatches THEN " for non-patches"
    ELSE IF reqs.requireOnGitTag THEN " for git-tag builds"
    ELSE ""

MustDependError(source, target, reqs) ==
    <<"task must depend on task running and succeeding", source, target,
      RequiredModes(reqs)>>

\* the error of dependencyMustRun, wrapped once by each of its callers
SearchError(source, target, outcome, node, wraps) ==
    <<"error searching for dependency of task on task", source, target, wraps,
      IF outcome = "missing" THEN "dependency is not defined"
      ELSE "dependency is in a dependency cycle", node>>

\* mutant: only the requirement on patches is looked at
SkippedWhenRequired_OnPatchesOnly(reqs, taskUnit) ==
    reqs.requireOnPatches
        /\ (SkipOnPatchBuild(taskUnit) \/ SkipOnNonGitTagBuild(taskUnit))

\* whether the task unit is skipped in a mode the source requires
SkippedWhenRequired(reqs, taskUnit) ==
    \/ reqs.requireOnPatches
          /\ (SkipOnPatchBuild(taskUnit) \/ SkipOnNonGitTagBuild(taskUnit))
    \/ reqs.requireOnNonPatches
          /\ (SkipOnNonPatchBuild(taskUnit) \/ SkipOnNonGitTagBuild(taskUnit))
    \/ reqs.requireOnGitTag /\ SkipOnNonPatchBuild(taskUnit)

\* mutant: every status but 'failed' needs success
LastDepNeedsSuccess_UnlessFailed(dep) == dep.Status # TaskFailed

\* depReqs.lastDepNeedsSuccess once the walk takes the edge of dep
LastDepNeedsSuccess(dep) == dep.Status = "" \/ dep.Status = TaskSucceeded

\* mutant: the target counts as found when the last edge does not need success
MustRunVisit_Inverted(vis, m, current, target, reqs, last) ==
    IF current \notin DOMAIN vis THEN "missing"
    ELSE IF vis[current] THEN "cycle"
    ELSE IF SkippedWhenRequired(reqs, m[current]) THEN "unreachable"
    ELSE IF current = target THEN (IF last THEN "unreachable" ELSE "found")
    ELSE "enter"

\* what dependencyMustRun does with current before it walks its dependencies
MustRunVisit(vis, m, current, target, reqs, last) ==
    IF current \notin DOMAIN vis THEN "missing"
    ELSE IF vis[current] THEN "cycle"
    ELSE IF SkippedWhenRequired(reqs, m[current]) THEN "unreachable"
    ELSE IF current = target THEN (IF last THEN "found" ELSE "unreachable")
    ELSE "enter"

\* mutant: the build variant of the push task is not defaulted
S3PushTaskNode_NoDefault(parsed, bv) == TV(parsed.bv, parsed.task)

\* s3PushTaskNode: the node the s3.pull refers to, on the build variant of the
\* pulling task when the command names none
S3PushTaskNode(parsed, bv) ==
    TV(IF parsed.bv = EmptyName THEN bv ELSE parsed.bv, parsed.task)

\* out before the first s3.pull command is reached
NoPull == [source |-> TV(EmptyName, EmptyName), parsed |-> FALSE,
           target |-> TV(EmptyName, EmptyName), findings |-> <<>>]

MustRunFrame(node, deps, last) ==
    [node |-> node, deps |-> deps, cur |-> <<>>, last |-> last]

\* mutant: a task that runs no s3.push is not reported
PushFindings_DefinedOnly(p, target) ==
    IF CommandsRunOnTV(p, target, S3PushCommandName).err
    THEN <<Finding(Error, <<"problem validating that task runs command",
                            target.TaskName, S3PushCommandName>>)>>
    ELSE <<>>

\* the findings of the check that the referenced task runs s3.push
PushFindings(p, target) ==
    LET r == CommandsRunOnTV(p, target, S3PushCommandName)
    IN IF r.err
       THEN <<Finding(Error, <<"problem validating that task runs command",
                               target.TaskName, S3PushCommandName>>)>>
       ELSE IF Len(r.cmds) = 0
       THEN <<Finding(Error, <<"task in build variant does not run command",
                               target.TaskName, target.Variant,
                               S3PushCommandName>>)>>
       ELSE <<>>

\* the rest of the loop body once validateTVDependsOnTV returned depErr
\* (<<>> being nil)
TVDependsOnTVReturned(source, target, depErr) ==
    LET findings ==
            (IF depErr = <<>> THEN <<>>
             ELSE <<Finding(Error, <<"problem validating that task running command depends on task running command",
                                     S3PullCommandName, S3PushCommandName,
                                     depErr[1]>>)>>)
            \o PushFindings(project, target)
    IN /\ errs' = errs \o findings
       /\ out' = [source |-> source, parsed |-> TRUE, target |-> target,
                  findings |-> findings]
       /\ loop' = [loop EXCEPT !.cmds = Tail(@)]
       /\ pc' = "s3.pull"

\* a call of dependencyMustRun(target, current, ...) made with visited map
\* vis and node slice nodes while frames is the stack of its callers
MustRunCall(vis, nodes, current, last, frames, c) ==
    LET outcome == MustRunVisit(vis, tvToTaskUnit, current, c.target, c.reqs, last)
    IN IF outcome = "enter"
       THEN /\ visited' = [vis EXCEPT ![current] = TRUE]
            /\ stack' = Append(frames, MustRunFrame(current,
                   DOMAIN DependenciesForTaskUnit(current, tvToTaskUnit[current], nodes),
                   last))
            /\ pc' = "dependencyMustRun"
            /\ UNCHANGED <<errs, out, loop>>
       ELSE IF outcome = "unreachable" /\ frames # NoFrames
       THEN \* return false, nil: the caller goes on with its loop
            /\ visited' = vis
            /\ stack' = frames
            /\ pc' = "dependencyMustRun"
            /\ UNCHANGED <<errs, out, loop>>
       ELSE \* the result is returned through every caller
            /\ visited' = vis
            /\ stack' = NoFrames
            /\ TVDependsOnTVReturned(c.source, c.target,
                   IF outcome = "found" THEN <<>>
                   ELSE IF outcome = "unreachable"
                   THEN <<MustDependError(c.source, c.target, c.reqs)>>
                   ELSE <<SearchError(c.source, c.target, outcome, current,
                                      Len(frames))>>)

validateTaskSyncCommands ==
    /\ pc = "validateTaskSyncCommands"
    /\ LET bvToTaskCmds == bvsWithTasksThatCallCommand(project, S3PullCommandName)
       IN /\ errs' = validateTimesCalledPerTask(project,
                         TasksThatCallCommand(project, S3PushCommandName),
                         S3PushCommandName, 1, Warning)
                     \o (IF bvToTaskCmds.err = <<>> THEN <<>>
                         ELSE <<Finding(Error, <<"could not generate map of build variants with tasks that call command",
                                                 S3PullCommandName, bvToTaskCmds.err>>)>>)
          /\ todo' = DOMAIN bvToTaskCmds.map
    /\ tvToTaskUnit' = TvToTaskUnit(project)
    /\ loop' = NoLoop
    /\ out' = NoPull
    /\ pc' = "s3.pull"
    /\ project' = ProjectAfterTvToTaskUnit(project)
    /\ UNCHANGED <<parked, batteryVars, allNodes, visited, stack, run, prevErrs, call>>

\* for bv, taskCmds := range bvToTaskCmds { for task, cmds := range taskCmds:
\* the next task of the build variant being ranged over, or of another
\* build variant once that one has no task left
pullNextTask ==
    /\ pc = "s3.pull"
    /\ loop.cmds = <<>>
    /\ \E tv \in todo :
          /\ \/ loop.bv = <<tv.Variant>>
             \/ \A other \in todo : loop.bv # <<other.Variant>>
          /\ loop' = [bv |-> <<tv.Variant>>, task |-> tv.TaskName,
                      cmds |-> bvsWithTasksThatCallCommand(project,
                                   S3PullCommandName).map[tv]]
          /\ todo' = todo \ {tv}
    /\ UNCHANGED <<project, parked, batteryVars, pc, allNodes, tvToTaskUnit, visited, stack, errs,
                   run, prevErrs, call, out>>

\* for _, cmd := range cmds: the body, up to the first call of
\* dependencyMustRun
pullCommand ==
    /\ pc = "s3.pull"
    /\ loop.cmds # <<>>
    /\ LET cmd == Head(loop.cmds)
           parsed == parseS3PullParameters(cmd)
           s3PullTaskNode == TV(loop.bv[1], loop.task)
           s3PushTaskNode == S3PushTaskNode(parsed, loop.bv[1])
       IN IF parsed.err # <<>>
          THEN LET finding == Finding(Error, <<"could not parse parameters for command",
                                               cmd.Command, parsed.err>>)
               IN /\ errs' = Append(errs, finding)
                  /\ out' = [source |-> s3PullTaskNode, parsed |-> FALSE,
                             target |-> TV(EmptyName, EmptyName),
                             findings |-> <<finding>>]
                  /\ loop' = [loop EXCEPT !.cmds = Tail(@)]
                  /\ UNCHANGED <<pc, allNodes, visited, stack, call>>
          ELSE IF s3PullTaskNode = s3PushTaskNode
          THEN /\ TVDependsOnTVReturned(s3PullTaskNode, s3PushTaskNode,
                      << <<"task cannot depend on itself", s3PullTaskNode>> >>)
               /\ UNCHANGED <<allNodes, visited, stack, call>>
          ELSE IF s3PullTaskNode \notin DOMAIN tvToTaskUnit
          THEN /\ TVDependsOnTVReturned(s3PullTaskNode, s3PushTaskNode,
                      << <<"could not find task in build variant", s3PullTaskNode>> >>)
               /\ UNCHANGED <<allNodes, visited, stack, call>>
          ELSE \E allTVs \in Orderings(DOMAIN tvToTaskUnit) :
                  LET c == [source |-> s3PullTaskNode, target |-> s3PushTaskNode,
                            reqs |-> DependencyRequirements(
                                         tvToTaskUnit[s3PullTaskNode])]
                  IN /\ allNodes' = allTVs
                     /\ call' = c
                     /\ MustRunCall([tv \in DOMAIN tvToTaskUnit |-> FALSE],
                                    allTVs, s3PullTaskNode, TRUE, NoFrames, c)
    /\ UNCHANGED <<project, parked, batteryVars, tvToTaskUnit, todo, run, prevErrs>>

\* for dep, depNodes := range depsToNodes: the next dependency of the map
mustRunNextDependency ==
    /\ pc = "dependencyMustRun"
    /\ Top.cur = <<>>
    /\ \E dep \in Top.deps :
          stack' = [stack EXCEPT ![Len(stack)] =
              IF call.reqs.requireOnPatches /\ dep.PatchOptional
              THEN [@ EXCEPT !.deps = @ \ {dep}]
              ELSE [@ EXCEPT !.deps = @ \ {dep},
                             !.last = LastDepNeedsSuccess(dep),
                             !.cur = DependenciesForTaskUnit(Top.node,
                                         tvToTaskUnit[Top.node], allNodes)[dep]]]
    /\ UNCHANGED <<project, parked, batteryVars, loop, pc, allNodes, tvToTaskUnit, visited, todo,
                   errs, run, prevErrs, call, out>>

\* for _, depNode := range depNodes { dependencyMustRun(target, depNode, ...) }
mustRunRecurse ==
    /\ pc = "dependencyMustRun"
    /\ Top.cur # <<>>
    /\ MustRunCall(visited, allNodes, Head(Top.cur), Top.last,
                   [stack EXCEPT ![Len(stack)] = [@ EXCEPT !.cur = Tail(@)]], call)
    /\ UNCHANGED <<project, parked, batteryVars, allNodes, tvToTaskUnit, todo, run, prevErrs, call>>

\* visited[current] = false; return false, nil
mustRunReturn ==
    /\ pc = "dependencyMustRun"
    /\ TopDone
    /\ visited' = [visited EXCEPT ![Top.node] = FALSE]
    /\ stack' = SubSeq(stack, 1, Len(stack) - 1)
    /\ IF Len(stack) = 1
       THEN TVDependsOnTVReturned(call.source, call.target,
                <<MustDependError(call.source, call.target, call.reqs)>>)
       ELSE UNCHANGED <<pc, errs, out, loop>>
    /\ UNCHANGED <<project, parked, batteryVars, allNodes, tvToTaskUnit, todo, run, prevErrs, call>>

\* return errs
taskSyncCommandsValidated ==
    /\ pc = "s3.pull"
    /\ loop.cmds = <<>>
    /\ todo = {}
    /\ IF battery.name # "none"
       THEN ValidatorReturned
       ELSE /\ pc' = "returned"
            /\ UNCHANGED <<project, parked, batteryVars, loop, allNodes, tvToTaskUnit,
                           visited, stack, todo, errs, run, prevErrs, call, out>>

-----------------------------------------------------------------------------
(* Projects of the task-sync specification                                 *)

Pull(params) == PluginCommand(S3PullCommandName, params, <<>>)

\* task a pulls from task c, which pushes; the first SyncDepBound candidate
\* dependencies are switched on or off, and a and c skip some kind of build
SyncDepBound == 6

SyncCandidateDeps == <<
    [of |-> tA, dep |-> Dep(tB, EmptyName, "", FALSE)],
    [of |-> tB, dep |-> Dep(tC, EmptyName, TaskSucceeded, FALSE)],
    [of |-> tA, dep |-> Dep(tC, EmptyName, TaskFailed, FALSE)],
    [of |-> tA, dep |-> Dep(tC, EmptyName, TaskSucceeded, TRUE)],
    [of |-> tB, dep |-> Dep(tA, v1, "", FALSE)],
    [of |-> tB, dep |-> Dep(tX, EmptyName, "", FALSE)],
    [of |-> tA, dep |-> Dep(tC, EmptyName, AllStatuses, FALSE)],
    [of |-> tB, dep |-> Dep(AllDependencies, EmptyName, "", FALSE)] >>

SyncDepsOf(task, chosen) ==
    LET picked == SelectSeq(SyncCandidateDeps, LAMBDA c : c.of = task /\ c \in chosen)
    IN [i \in DOMAIN picked |-> picked[i].dep]

SkipProfiles ==
    {NoSkips, [NoSkips EXCEPT !.Patch = "yes"], [NoSkips EXCEPT !.NonPatch = "yes"],
     [NoSkips EXCEPT !.NonGitTag = "yes"]}

SyncGraphProject(chosen, sourceSkips, targetSkips) ==
    Project(<<ProjectTask(tA, SyncDepsOf(tA, chosen),
                  <<Pull([task |-> StringParam(tC)])>>, sourceSkips),
              ProjectTask(tB, SyncDepsOf(tB, chosen), <<>>, NoSkips),
              ProjectTask(tC, <<>>, <<Cmd(S3PushCommandName)>>, targetSkips)>>,
            <<BuildVariant(v1, v1, <<PlainUnit(tA), PlainUnit(tB), PlainUnit(tC)>>, <<>>)>>,
            <<>>, <<>>, <<>>)

SyncGraphProjects ==
    {SyncGraphProject(chosen, sourceSkips, targetSkips) :
        chosen \in SUBSET {SyncCandidateDeps[i] :
            i \in 1..(IF SyncDepBound < Len(SyncCandidateDeps) THEN SyncDepBound
                      ELSE Len(SyncCandidateDeps))},
        sourceSkips \in SkipProfiles, targetSkips \in SkipProfiles}

\* task a pulls with every shape of parameters, from a task that pushes on
\* every variant, on variant v2 only, or not at all; c also runs on v2
v3 == <<"v", "3">>

TaskParams == {<<>>, <<OtherParam>>, <<StringParam(tC)>>, <<StringParam(tX)>>,
               <<StringParam(tB)>>, <<StringParam(tA)>>}

VariantParams == {<<>>, <<OtherParam>>, <<StringParam(EmptyName)>>,
                  <<StringParam(v1)>>, <<StringParam(v2)>>, <<StringParam(v3)>>}

PullParams(task, variant) ==
    [k \in (IF task = <<>> THEN {} ELSE {"task"})
           \cup (IF variant = <<>> THEN {} ELSE {"from_build_variant"}) |->
        IF k = "task" THEN task[1] ELSE variant[1]]

PushCommands ==
    {<<>>, <<Cmd(S3PushCommandName)>>,
     <<PluginCommand(S3PushCommandName, <<>>, <<v2>>)>>}

PullShapeDeps == {<<>>, <<Dep(tC, EmptyName, "", FALSE)>>, <<Dep(tC, v2, "", FALSE)>>}

PullShapeProject(deps, task, variant, pushes, bPulls) ==
    Project(<<ProjectTask(tA, deps, <<Pull(PullParams(task, variant))>>, NoSkips),
              ProjectTask(tB, <<>>,
                  IF bPulls THEN <<Pull([task |-> StringParam(tC)])>> ELSE <<>>,
                  NoSkips),
              ProjectTask(tC, <<>>, pushes, NoSkips)>>,
            <<BuildVariant(v1, v1, <<PlainUnit(tA), PlainUnit(tB), PlainUnit(tC)>>, <<>>),
              BuildVariant(v2, v2, <<PlainUnit(tC)>>, <<>>)>>,
            <<>>, <<>>, <<>>)

PullShapeProjects ==
    {PullShapeProject(deps, task, variant, pushes, bPulls) :
        deps \in PullShapeDeps, task \in TaskParams, variant \in VariantParams,
        pushes \in PushCommands, bPulls \in BOOLEAN}

\* task a pulls from task c with every combination of its three skip
\* predicates; it depends on c through b, on c only when c fails, or not at all
SkipCombinations ==
    {[Patch |-> patch, NonPatch |-> nonPatch, NonGitTag |-> nonGitTag] :
        patch \in {"unset", "yes"}, nonPatch \in {"unset", "yes"},
        nonGitTag \in {"unset", "yes"}}

ModeProjects ==
    {SyncGraphProject(chosen, sourceSkips, NoSkips) :
        chosen \in {{}, {SyncCandidateDeps[1], SyncCandidateDeps[2]},
                    {SyncCandidateDeps[3]}},
        sourceSkips \in SkipCombinations}

\* task a pulls from task c and depends on it by one dependency of each
\* status, directly or as the last edge of the chain through task b
DependencyStatuses == {"", TaskSucceeded, TaskFailed, AllStatuses}

StatusProject(status, viaB) ==
    Project(<<ProjectTask(tA, IF viaB THEN <<Dep(tB, EmptyName, TaskFailed, FALSE)>>
                              ELSE <<Dep(tC, EmptyName, status, FALSE)>>,
                  <<Pull([task |-> StringParam(tC)])>>, NoSkips),
              ProjectTask(tB, IF viaB THEN <<Dep(tC, EmptyName, status, FALSE)>>
                              ELSE <<>>, <<>>, NoSkips),
              ProjectTask(tC, <<>>, <<Cmd(S3PushCommandName)>>, NoSkips)>>,
            <<BuildVariant(v1, v1, <<PlainUnit(tA), PlainUnit(tB), PlainUnit(tC)>>, <<>>)>>,
            <<>>, <<>>, <<>>)

StatusProjects ==
    {StatusProject(status, viaB) : status \in DependencyStatuses, viaB \in BOOLEAN}

\* variant v1 lists task a and the task group g of task b (and, when no
\* command is outside the group, of the undefined task x); each section that
\* can hold commands holds an s3.pull of its own or nothing, and the one of
\* Pre may be limited to variant v2
PullFrom(variant) ==
    Pull([task |-> StringParam(tC), from_build_variant |-> StringParam(variant)])

OneOrNone(c) == {<<>>, <<c>>}

SectionPullProject(pre, post, setups, teardowns, aCmds, bCmds, members) ==
    Project(<<ProjectTask(tA, <<>>, aCmds, NoSkips),
              ProjectTask(tB, <<>>, bCmds, NoSkips),
              ProjectTask(tC, <<>>, <<Cmd(S3PushCommandName)>>, NoSkips)>>,
            <<BuildVariant(v1, v1, <<PlainUnit(tA), GroupUnit(tG)>>, <<>>)>>,
            <<TaskGroup(tG, members, 0, setups, <<>>, <<>>, teardowns)>>,
            pre, post)

SectionPullProjects ==
    {SectionPullProject(pre, post, setups, teardowns, aCmds, bCmds, members) :
        pre \in OneOrNone(PullFrom(v1))
                \cup {<<PluginCommand(S3PullCommandName, [task |-> StringParam(tC)], <<v2>>)>>},
        post \in OneOrNone(PullFrom(v2)),
        setups \in OneOrNone(PullFrom(v3)),
        teardowns \in OneOrNone(PullFrom(EmptyName)),
        aCmds \in OneOrNone(Pull([task |-> StringParam(tC)])),
        bCmds \in OneOrNone(Pull([task |-> StringParam(tC)])),
        members \in {<<tB>>}}
    \cup
    {SectionPullProject(<<>>, <<>>, setups, teardowns, <<>>, bCmds, <<tB, tX>>) :
        setups \in OneOrNone(PullFrom(v3)),
        teardowns \in OneOrNone(PullFrom(EmptyName)),
        bCmds \in OneOrNone(Pull([task |-> StringParam(tC)]))}

\* task a runs an s3.pull with parameters that do not parse and then one
\* from task c
UnparsedParams ==
    {<<>>, [task |-> OtherParam], [from_build_variant |-> StringParam(v1)],
     [task |-> StringParam(tC), from_build_variant |-> OtherParam]}

ParamErrorProject(params) ==
    Project(<<ProjectTask(tA, <<>>, <<Pull(params), Pull([task |-> StringParam(tC)])>>,
                          NoSkips),
              ProjectTask(tC, <<>>, <<Cmd(S3PushCommandName)>>, NoSkips)>>,
            <<BuildVariant(v1, v1, <<PlainUnit(tA), PlainUnit(tC)>>, <<>>)>>,
            <<>>, <<>>, <<>>)

ParamErrorProjects == {ParamErrorProject(params) : params \in UnparsedParams}

\* task a pulls from task c and reaches it through task b only: the edge to
\* b has any status and may be optional on patches, and a and b skip some
\* kind of build
PathProject(status, patchOptional, aSkips, bSkips) ==
    Project(<<ProjectTask(tA, <<Dep(tB, EmptyName, status, patchOptional)>>,
                  <<Pull([task |-> StringParam(tC)])>>, aSkips),
              ProjectTask(tB, <<Dep(tC, EmptyName, TaskSucceeded, FALSE)>>, <<>>, bSkips),
              ProjectTask(tC, <<>>, <<Cmd(S3PushCommandName)>>, NoSkips)>>,
            <<BuildVariant(v1, v1, <<PlainUnit(tA), PlainUnit(tB), PlainUnit(tC)>>, <<>>)>>,
            <<>>, <<>>, <<>>)

PathProjects ==
    {PathProject(status, patchOptional, aSkips, bSkips) :
        status \in {TaskFailed, AllStatuses}, patchOptional \in BOOLEAN,
        aSkips \in SkipProfiles, bSkips \in SkipProfiles}

InitSync ==
    /\ parked = NoParked
    /\ project \in SyncGraphProjects \cup PullShapeProjects \cup ModeProjects
                      \cup StatusProjects \cup SectionPullProjects
                      \cup ParamErrorProjects \cup PathProjects
    /\ env = NoEnv
    /\ validationErrs = <<>>
    /\ battery = NoBattery
    /\ valid = NoValid
    /\ loop = NoLoop
    /\ pc = "validateTaskSyncCommands"
    /\ allNodes = <<>>
    /\ tvToTaskUnit = <<>>
    /\ visited = <<>>
    /\ stack = NoFrames
    /\ todo = {}
    /\ errs = <<>>
    /\ run = 1
    /\ prevErrs = <<>>
    /\ call = <<>>
    /\ out = <<>>

NextSync ==
    \/ validateTaskSyncCommands
    \/ pullNextTask
    \/ pullCommand
    \/ mustRunNextDependency
    \/ mustRunRecurse
    \/ mustRunReturn
    \/ taskSyncCommandsValidated

SpecSync == InitSync /\ [][NextSync]_vars

-----------------------------------------------------------------------------
(* Strings as the validators inspect them *)

Whitespace == {" ", "\t", "\n"}

unauthorizedCharacters == {"|"}

InvalidCriterionRunes == {"!", "."}

ValidCommandTypes == {"setup", "system", "test"}

MaxInt32 == 2147483647

\* the 64-bit integer q * 2^31 + r with 0 <= r < 2^31: negative when q < 0,
\* greater than MaxInt32 when q >= 1
Int64(q, r) == [q |-> q, r |-> r]

ContainsAny(s, chars) == \E i \in DOMAIN s : s[i] \in chars

\* index of the first character of s that is in chars, counted from 0; -1 if none
IndexAny(s, chars) ==
    IF ContainsAny(s, chars)
    THEN (CHOOSE i \in DOMAIN s :
             s[i] \in chars /\ \A j \in 1..(i - 1) : s[j] \notin chars) - 1
    ELSE -1

IndexWhiteSpace(s) == IndexAny(s, Whitespace)

TrimSpace(s) ==
    LET kept == {i \in DOMAIN s : s[i] \notin Whitespace}
    IN IF kept = {} THEN <<>>
       ELSE SubSeq(s, CHOOSE i \in kept : \A j \in kept : i <= j,
                      CHOOSE i \in kept : \A j \in kept : j <= i)

HasPrefix(s, prefix) ==
    Len(s) >= Len(prefix) /\ SubSeq(s, 1, Len(prefix)) = prefix

\* every concatenation of one sequence from each set, in the order of sets
RECURSIVE ConcatOfEach(_)
ConcatOfEach(sets) ==
    IF sets = <<>> THEN {<<>>}
    ELSE {a \o b : a \in Head(sets), b \in ConcatOfEach(Tail(sets))}

-----------------------------------------------------------------------------
(* The syntax validators that are one pass over the project. A validator    *)
(* that ranges over a Go map is the set of the results it can return.       *)

ensureHasNecessaryBVFields(p) ==
    IF Len(p.BuildVariants) = 0
    THEN <<Finding(Error, <<"project must specify at least one buildvariant",
                            p.Identifier>>)>>
    ELSE Flatten([i \in DOMAIN p.BuildVariants |->
        LET buildVariant == p.BuildVariants[i]
            hasTaskWithoutDistro ==
                \E j \in DOMAIN buildVariant.Tasks :
                    Len(buildVariant.Tasks[j].Distros) = 0
        IN (IF buildVariant.Name = EmptyName
            THEN <<Finding(Error, <<"project buildvariant must have a name",
                                    p.Identifier>>)>>
            ELSE <<>>)
           \o (IF Len(buildVariant.Tasks) = 0
               THEN <<Finding(Error, <<"buildvariant in project must have at least one task",
                                       buildVariant.Name, p.Identifier>>)>>
               ELSE <<>>)
           \o (IF hasTaskWithoutDistro /\ Len(buildVariant.RunOn) = 0
               THEN <<Finding(Error, <<"buildvariant in project must either specify run_on field or have every task specify a distro",
                                       buildVariant.Name, p.Identifier>>)>>
               ELSE <<>>)])

\* the commands the registry knows
RegisteredCommands ==
    {S3PushCommandName, S3PullCommandName, CreateHostCommandName,
     GenerateTasksCommandName, "shell.exec", "attach.results", "attach.artifacts"}

\* whether command.Render returns an error
RenderFails(cmd, functions) ==
    IF cmd.Function # EmptyName THEN cmd.Function \notin DOMAIN functions
    ELSE cmd.Command \notin RegisteredCommands

validateCommands(section, p, commands) ==
    Flatten([i \in DOMAIN commands |->
        LET cmd == commands[i]
            failed == RenderFails(cmd, p.Functions)
            commandName == IF failed /\ cmd.Function # EmptyName
                           THEN <<"function", cmd.Function>>
                           ELSE <<"command", cmd.Command>>
        IN (IF failed
            THEN <<Finding(Error, <<"section in command: render error",
                                    section, commandName>>)>>
            ELSE <<>>)
           \o (IF cmd.Type # "" /\ cmd.Type \notin ValidCommandTypes
               THEN <<Finding(Error, <<"section in command: invalid command type",
                                       section, commandName, cmd.Type>>)>>
               ELSE <<>>)])

\* the findings for one function definition; the seen map never holds the
\* name yet, a map being ranged over by its distinct keys
FunctionFindings(p, funcName) ==
    LET commands == p.Functions[funcName]
        valErrs == validateCommands("functions", p, commands)
    IN IF Len(commands) = 0
       THEN <<Finding(Error, <<"project's function contains no commands",
                               p.Identifier, funcName>>)>>
       ELSE [k \in DOMAIN valErrs |->
                Finding(Error, <<"project's definition", p.Identifier, funcName,
                                 valErrs[k].Message>>)]
            \o Flatten([k \in DOMAIN commands |->
                   IF commands[k].Function # EmptyName
                   THEN <<Finding(Error, <<"can not reference a function within a function",
                                           commands[k].Function, funcName>>)>>
                   ELSE <<>>])

validatePluginCommands(p) ==
    {Flatten([k \in DOMAIN order |-> FunctionFindings(p, order[k])])
     \o validateCommands("pre", p, p.Pre)
     \o validateCommands("post", p, p.Post)
     \o validateCommands("timeout", p, p.Timeout)
     \o Flatten([i \in DOMAIN p.Tasks |->
            validateCommands("tasks", p, p.Tasks[i].Commands)]) :
        order \in Orderings(DOMAIN p.Functions)}

ensureHasNecessaryProjectFields(p) ==
    (IF p.BatchTime.q < 0
     THEN <<Finding(Error, <<"project must have a non-negative 'batchtime' set",
                             p.Identifier>>)>>
     ELSE <<>>)
    \o (IF p.BatchTime.q >= 1
        THEN <<Finding(Warning, <<"project field 'batchtime' should not exceed",
                                  p.Identifier, MaxInt32>>)>>
        ELSE <<>>)
    \o (IF p.CommandType # "" /\ p.CommandType \notin ValidCommandTypes
        THEN <<Finding(Error, <<"project contains an invalid command type",
                                p.Identifier, p.CommandType>>)>>
        ELSE <<>>)

verifyTaskDependencies(p) ==
    LET taskNames == {p.Tasks[i].Name : i \in DOMAIN p.Tasks}
    IN Flatten([i \in DOMAIN p.Tasks |->
        LET task == p.Tasks[i]
        IN Flatten([k \in DOMAIN task.DependsOn |->
            LET dep == task.DependsOn[k]
            IN (IF \E j \in 1..(k - 1) :
                      /\ task.DependsOn[j].Name = dep.Name
                      /\ task.DependsOn[j].Variant = dep.Variant
                THEN <<Finding(Error, <<"project contains a duplicate dependency specified for task",
                                        p.Identifier, dep.Name, task.Name>>)>>
                ELSE <<>>)
               \o (IF dep.Status \notin {TaskSucceeded, TaskFailed, AllStatuses, ""}
                   THEN <<Finding(Error, <<"project contains an invalid dependency status for task",
                                           p.Identifier, task.Name, dep.Status>>)>>
                   ELSE <<>>)
               \o (IF dep.Name # AllDependencies /\ dep.Name \notin taskNames
                   THEN <<Finding(Error, <<"project contains a non-existent task name in dependencies for task",
                                           p.Identifier, dep.Name, task.Name>>)>>
                   ELSE <<>>)])])

\* the task units of every build variant whose task the project defines,
\* populated from that task
FindAllBuildVariantTasks(p) ==
    Flatten([i \in DOMAIN p.BuildVariants |->
        Flatten([j \in DOMAIN p.BuildVariants[i].Tasks |->
            LET t == p.BuildVariants[i].Tasks[j]
            IN IF FindProjectTask(p, t.Name) = <<>> THEN <<>>
               ELSE <<Populate(t, FindProjectTask(p, t.Name)[1])>>])])

FindBuildVariant(p, name) ==
    SelectSeq(p.BuildVariants, LAMBDA bv : bv.Name = name)

FindVariantsWithTask(p, task) ==
    Flatten([i \in DOMAIN p.BuildVariants |->
        Flatten([j \in DOMAIN p.BuildVariants[i].Tasks |->
            IF p.BuildVariants[i].Tasks[j].Name = task
            THEN <<p.BuildVariants[i].Name>> ELSE <<>>])])

verifyTaskRequirements(p) ==
    LET bvts == FindAllBuildVariantTasks(p)
    IN Flatten([i \in DOMAIN bvts |->
        LET bvt == bvts[i]
        IN Flatten([k \in DOMAIN bvt.Requires |->
            LET r == bvt.Requires[k]
                vs == FindVariantsWithTask(p, r.Name)
                named == r.Variant # EmptyName /\ r.Variant # AllVariants
            IN (IF FindProjectTask(p, r.Name) # <<>> THEN <<>>
                ELSE IF r.Name = AllDependencies
                THEN <<Finding(Error, <<"task: * is not supported for requirement selectors",
                                        bvt.Name>>)>>
                ELSE <<Finding(Error, <<"task requires non-existent task",
                                        bvt.Name, r.Name>>)>>)
               \o (IF named /\ FindBuildVariant(p, r.Variant) = <<>>
                   THEN <<Finding(Error, <<"task requires non-existent variant",
                                           bvt.Name, r.Variant>>)>>
                   ELSE <<>>)
               \o (IF named
                   THEN (IF Contains(vs, r.Variant) THEN <<>>
                         ELSE <<Finding(Error, <<"task requires task on variant",
                                                 bvt.Name, r.Name, r.Variant>>)>>)
                   ELSE (IF Contains(vs, bvt.Variant) THEN <<>>
                         ELSE <<Finding(Error, <<"task requires task on variant",
                                                 bvt.Name, r.Name, bvt.Variant>>)>>))])])

validateTaskNames(p) ==
    Flatten([i \in DOMAIN p.Tasks |->
        IF ContainsAny(TrimSpace(p.Tasks[i].Name), unauthorizedCharacters \cup {" "})
        THEN <<Finding(Error, <<"task name contains unauthorized characters",
                                p.Tasks[i].Name>>)>>
        ELSE <<>>])

validateBVNames_WarningsAfterErrors(p) ==
    LET bvs == p.BuildVariants
        dispName(bv) == IF bv.DisplayName = EmptyName THEN bv.Name ELSE bv.DisplayName
        errors == Flatten([i \in DOMAIN bvs |->
            (IF \E j \in 1..(i - 1) : bvs[j].Name = bvs[i].Name
             THEN <<Finding(Error, <<"project buildvariant already exists",
                                     p.Identifier, bvs[i].Name>>)>>
             ELSE <<>>)
            \o (IF ContainsAny(bvs[i].Name, unauthorizedCharacters)
                THEN <<Finding(Error, <<"buildvariant name contains unauthorized characters",
                                        bvs[i].Name>>)>>
                ELSE <<>>)])
        displayNames == [k \in {dispName(bvs[i]) : i \in DOMAIN bvs} |->
                            Cardinality({i \in DOMAIN bvs : dispName(bvs[i]) = k})]
    IN {errors \o Flatten([n \in DOMAIN order |->
                 IF displayNames[order[n]] > 1
                 THEN <<Finding(Warning, <<"build variants share the same display name",
                                           displayNames[order[n]], order[n]>>)>>
                 ELSE <<>>]) :
           order \in Orderings(DOMAIN displayNames)}

validateBVNames(p) ==
    LET bvs == p.BuildVariants
        dispName(bv) == IF bv.DisplayName = EmptyName THEN bv.Name ELSE bv.DisplayName
        errors == Flatten([i \in DOMAIN bvs |->
            (IF \E j \in 1..(i - 1) : bvs[j].Name = bvs[i].Name
             THEN <<Finding(Error, <<"project buildvariant already exists",
                                     p.Identifier, bvs[i].Name>>)>>
             ELSE <<>>)
            \o (IF ContainsAny(bvs[i].Name, unauthorizedCharacters)
                THEN <<Finding(Error, <<"buildvariant name contains unauthorized characters",
                                        bvs[i].Name>>)>>
                ELSE <<>>)])
        displayNames == [k \in {dispName(bvs[i]) : i \in DOMAIN bvs} |->
                            Cardinality({i \in DOMAIN bvs : dispName(bvs[i]) = k})]
    IN IF Len(errors) > 0 THEN {errors}
       ELSE {Flatten([n \in DOMAIN order |->
                 IF displayNames[order[n]] > 1
                 THEN <<Finding(Warning, <<"build variants share the same display name",
                                           displayNames[order[n]], order[n]>>)>>
                 ELSE <<>>]) :
                order \in Orderings(DOMAIN displayNames)}

\* the cron expressions the cron parser accepts
ValidCronBatchTimes == {"@daily", "0 * * * *"}

validateBVBatchTimes(p) ==
    Flatten([i \in DOMAIN p.BuildVariants |->
        LET buildVariant == p.BuildVariants[i]
        IN IF buildVariant.CronBatchTime = "" THEN <<>>
           ELSE (IF buildVariant.BatchTime # <<>>
                 THEN <<Finding(Error, <<"variant cannot specify cron and batchtime",
                                         buildVariant.Name>>)>>
                 ELSE <<>>)
                \o (IF buildVariant.CronBatchTime \notin ValidCronBatchTimes
                    THEN <<Finding(Error, <<"cron batchtime has invalid syntax",
                                            buildVariant.CronBatchTime>>)>>
                    ELSE <<>>)])

validateDisplayTaskNames(p) ==
    Flatten([i \in DOMAIN p.BuildVariants |->
        Flatten([j \in DOMAIN p.BuildVariants[i].DisplayTasks |->
            LET dp == p.BuildVariants[i].DisplayTasks[j]
            IN Flatten([k \in DOMAIN dp.ExecutionTasks |->
                   IF HasPrefix(dp.ExecutionTasks[k],
                                <<"d", "i", "s", "p", "l", "a", "y", "_">>)
                   THEN <<Finding(Error, <<"execution task has prefix 'display_' which is invalid",
                                           dp.ExecutionTasks[k]>>)>>
                   ELSE <<>>])])])

validateBVTaskNames(p) ==
    Flatten([i \in DOMAIN p.BuildVariants |->
        LET buildVariant == p.BuildVariants[i]
        IN Flatten([j \in DOMAIN buildVariant.Tasks |->
               IF \E k \in 1..(j - 1) :
                     buildVariant.Tasks[k].Name = buildVariant.Tasks[j].Name
               THEN <<Finding(Error, <<"task in buildvariant in project already exists",
                                       buildVariant.Tasks[j].Name, buildVariant.Name,
                                       p.Identifier>>)>>
               ELSE <<>>])])

validateBVsContainTasks(p) ==
    Flatten([i \in DOMAIN p.BuildVariants |->
        IF Len(p.BuildVariants[i].Tasks) = 0
        THEN <<Finding(Warning, <<"buildvariant contains no tasks",
                                  p.BuildVariants[i].Name>>)>>
        ELSE <<>>])

validateProjectTaskNames(p) ==
    Flatten([i \in DOMAIN p.Tasks |->
        IF \E j \in 1..(i - 1) : p.Tasks[j].Name = p.Tasks[i].Name
        THEN <<Finding(Error, <<"task in project already exists",
                                p.Tasks[i].Name, p.Identifier>>)>>
        ELSE <<>>])

validateProjectTaskIdsAndTags(p) ==
    Flatten([i \in DOMAIN p.Tasks |->
        LET task == p.Tasks[i]
        IN (IF IndexAny(task.Name, InvalidCriterionRunes) = 0
            THEN <<Finding(Error, <<"task has invalid name: starts with invalid character",
                                    task.Name, task.Name[1]>>)>>
            ELSE <<>>)
           \o Flatten([k \in DOMAIN task.Tags |->
                  (IF IndexAny(task.Tags[k], InvalidCriterionRunes) = 0
                   THEN <<Finding(Error, <<"task has invalid tag: starts with invalid character",
                                           task.Name, task.Tags[k], task.Tags[k][1]>>)>>
                   ELSE <<>>)
                  \o (IF IndexWhiteSpace(task.Tags[k]) # -1
                      THEN <<Finding(Error, <<"task has invalid tag: tag contains white space",
                                              task.Name, task.Tags[k]>>)>>
                      ELSE <<>>)])])

\* the findings for one task group, counts being ranged over in any order
TaskGroupFindings(p, tg) ==
    LET counts == [name \in Range(tg.Tasks) |->
                      Cardinality({k \in DOMAIN tg.Tasks : tg.Tasks[k] = name})]
        before ==
            (IF Len(tg.Tasks) < 1
             THEN <<Finding(Error, <<"task group must have at least 1 task", tg.Name>>)>>
             ELSE <<>>)
            \o Flatten([i \in DOMAIN p.Tasks |->
                   IF p.Tasks[i].Name = tg.Name
                   THEN <<Finding(Error, <<"name is used as a name for both a task and task group",
                                           p.Tasks[i].Name>>)>>
                   ELSE <<>>])
        after ==
            Flatten([k \in DOMAIN tg.TeardownGroup |->
                IF tg.TeardownGroup[k].Command \in {"attach.results", "attach.artifacts"}
                THEN <<Finding(Error, <<"command cannot be used in the group teardown stage",
                                        tg.TeardownGroup[k].Command>>)>>
                ELSE <<>>])
    IN {before
        \o Flatten([n \in DOMAIN order |->
               IF counts[order[n]] > 1
               THEN <<Finding(Error, <<"task is listed in task group n times",
                                       order[n], tg.Name, counts[order[n]]>>)>>
               ELSE <<>>])
        \o after : order \in Orderings(DOMAIN counts)}

validateTaskGroups(p) ==
    ConcatOfEach([i \in DOMAIN p.TaskGroups |-> TaskGroupFindings(p, p.TaskGroups[i])])

-----------------------------------------------------------------------------
(* The semantic validators and the settings validator *)

checkTaskCommands(p) ==
    Flatten([i \in DOMAIN p.Tasks |->
        IF Len(p.Tasks[i].Commands) = 0
        THEN <<Finding(Warning, <<"task in project does not contain any commands",
                                  p.Tasks[i].Name, p.Identifier>>)>>
        ELSE <<>>])

checkTaskGroups(p) ==
    LET tgs == p.TaskGroups
        hostWarnings == Flatten([i \in DOMAIN tgs |->
            (IF tgs[i].MaxHosts < 1
             THEN <<Finding(Warning, <<"task group has number of hosts less than 1",
                                       tgs[i].Name, tgs[i].MaxHosts>>)>>
             ELSE <<>>)
            \o (IF Len(tgs[i].Tasks) # 1 /\ tgs[i].MaxHosts > Len(tgs[i].Tasks) \div 2
                THEN <<Finding(Warning, <<"task group has max number of hosts greater than half the number of tasks",
                                          tgs[i].Name, tgs[i].MaxHosts, Len(tgs[i].Tasks)>>)>>
                ELSE <<>>)])
        \* the groups whose tasks are recorded: those the loop body does not leave early
        recorded == {i \in DOMAIN tgs : Len(tgs[i].Tasks) # 1}
        tasksInTaskGroups ==
            [t \in UNION {Range(tgs[i].Tasks) : i \in recorded} |->
                tgs[CHOOSE i \in recorded :
                       /\ Contains(tgs[i].Tasks, t)
                       /\ \A j \in recorded : j > i => ~Contains(tgs[j].Tasks, t)].Name]
    IN {hostWarnings
        \o Flatten([n \in DOMAIN order |->
               LET spec == GetSpecForTask(p, order[n])
               IN IF Len(spec.DependsOn) > 0
                  THEN <<Finding(Warning, <<"task in task group has a dependency on another task",
                                            order[n], tasksInTaskGroups[order[n]],
                                            [k \in DOMAIN spec.DependsOn |->
                                                spec.DependsOn[k].Name]>>)>>
                  ELSE <<>>]) :
           order \in Orderings(DOMAIN tasksInTaskGroups)}

\* whether Loggers.IsValid returns an error
LoggersInvalid(loggers) == loggers # <<>> /\ ~loggers[1]

checkLoggerConfig(p) ==
    IF p.Loggers = <<>> THEN <<>>
    ELSE (IF LoggersInvalid(p.Loggers)
          THEN <<Finding(Warning, <<"error in project-level logger config">>)>>
          ELSE <<>>)
         \o Flatten([i \in DOMAIN p.Tasks |->
                Flatten([k \in DOMAIN p.Tasks[i].Commands |->
                    IF LoggersInvalid(p.Tasks[i].Commands[k].Loggers)
                    THEN <<Finding(Warning, <<"error in logger config for command in task",
                                              p.Tasks[i].Commands[k].Command,
                                              p.Tasks[i].Name>>)>>
                    ELSE <<>>])])

\* mutant: the project ref's setting is not consulted
validateTaskSyncSettings_RefIgnored(p, ref) ==
    (IF DOMAIN TasksThatCallCommand(p, S3PushCommandName) # {}
     THEN <<Finding(Error, <<"cannot use command in project config when it is disabled by project settings",
                             S3PushCommandName>>)>>
     ELSE <<>>)
    \o (IF DOMAIN TasksThatCallCommand(p, S3PullCommandName) # {}
        THEN <<Finding(Error, <<"cannot use command in project config when it is disabled by project settings",
                                S3PullCommandName>>)>>
        ELSE <<>>)

validateTaskSyncSettings(p, ref) ==
    IF ref.ConfigEnabled THEN <<>>
    ELSE (IF DOMAIN TasksThatCallCommand(p, S3PushCommandName) # {}
          THEN <<Finding(Error, <<"cannot use command in project config when it is disabled by project settings",
                                  S3PushCommandName>>)>>
          ELSE <<>>)
         \o (IF DOMAIN TasksThatCallCommand(p, S3PullCommandName) # {}
             THEN <<Finding(Error, <<"cannot use command in project config when it is disabled by project settings",
                                     S3PullCommandName>>)>>
             ELSE <<>>)

-----------------------------------------------------------------------------
(* getDistrosForProject and ensureReferentialIntegrity *)

\* aliases, followed by those of more that it does not hold yet
RECURSIVE AppendNew(_, _)
AppendNew(aliases, more) ==
    IF more = <<>> THEN aliases
    ELSE AppendNew(IF Contains(aliases, Head(more)) THEN aliases
                   ELSE Append(aliases, Head(more)), Tail(more))

RECURSIVE DistrosScan(_, _, _, _)
DistrosScan(distros, projectID, ids, aliases) ==
    IF distros = <<>> THEN [ids |-> ids, aliases |-> aliases, err |-> <<>>]
    ELSE LET d == Head(distros)
         IN IF projectID # EmptyName /\ Len(d.ValidProjects) > 0
               /\ ~Contains(d.ValidProjects, projectID)
            THEN DistrosScan(Tail(distros), projectID, ids, aliases)
            ELSE DistrosScan(Tail(distros), projectID, Append(ids, d.Id),
                             AppendNew(aliases, d.Aliases))

getDistrosForProject(projectID, catalog) ==
    IF catalog.findErr # <<>>
    THEN [ids |-> <<>>, aliases |-> <<>>, err |-> catalog.findErr]
    ELSE DistrosScan(catalog.distros, projectID, <<>>, <<>>)

ensureReferentialIntegrity(p, distroIDs, distroAliases) ==
    LET allTaskNames == {p.Tasks[i].Name : i \in DOMAIN p.Tasks}
                        \cup {p.TaskGroups[i].Name : i \in DOMAIN p.TaskGroups}
        unknown(distro) == ~Contains(distroIDs, distro) /\ ~Contains(distroAliases, distro)
    IN Flatten([i \in DOMAIN p.BuildVariants |->
        LET buildVariant == p.BuildVariants[i]
        IN Flatten([j \in DOMAIN buildVariant.Tasks |->
               LET task == buildVariant.Tasks[j]
               IN (IF task.Name \in allTaskNames THEN <<>>
                   ELSE IF task.Name = EmptyName
                   THEN <<Finding(Error, <<"tasks for buildvariant in project must each have a name field",
                                           p.Identifier, buildVariant.Name>>)>>
                   ELSE <<Finding(Error, <<"buildvariant in project references a non-existent task",
                                           buildVariant.Name, p.Identifier, task.Name>>)>>)
                  \o Flatten([k \in DOMAIN task.Distros |->
                         IF unknown(task.Distros[k])
                         THEN <<Finding(Warning, <<"task in buildvariant in project references a nonexistent distro",
                                                   buildVariant.Name, p.Identifier,
                                                   task.Distros[k], "%!s(MISSING)",
                                                   task.Name>>)>>
                         ELSE <<>>])])
           \o Flatten([k \in DOMAIN buildVariant.RunOn |->
                  IF unknown(buildVariant.RunOn[k])
                  THEN <<Finding(Warning, <<"buildvariant in project references a nonexistent distro",
                                            p.Identifier, buildVariant.RunOn[k],
                                            "%!s(MISSING)", buildVariant.Name>>)>>
                  ELSE <<>>])])

-----------------------------------------------------------------------------
(* The batteries and CheckProjectConfigurationIsValid, one step per         *)
(* validator of a battery's range loop                                      *)

projectSyntaxValidators == <<
    "ensureHasNecessaryBVFields", "checkDependencyGraph", "validatePluginCommands",
    "ensureHasNecessaryProjectFields", "verifyTaskDependencies",
    "verifyTaskRequirements", "validateTaskNames", "validateBVNames",
    "validateBVBatchTimes", "validateDisplayTaskNames", "validateBVTaskNames",
    "validateBVsContainTasks", "checkAllDependenciesSpec",
    "validateProjectTaskNames", "validateProjectTaskIdsAndTags",
    "validateTaskGroups", "validateCreateHosts", "validateDuplicateBVTasks",
    "validateGenerateTasks", "validateTaskSyncCommands" >>

projectSemanticValidators == <<"checkTaskCommands", "checkTaskGroups", "checkLoggerConfig">>

projectSettingsValidators == <<"validateTaskSyncSettings">>

\* the validators modelled step by step; the others return in one step
Walks == {"checkDependencyGraph", "validateTaskSyncCommands"}

\* the results a call of the validator can return
ValidatorResults(validator, p, ref) ==
    CASE validator = "ensureHasNecessaryBVFields" -> {ensureHasNecessaryBVFields(p)}
      [] validator = "validatePluginCommands" -> validatePluginCommands(p)
      [] validator = "ensureHasNecessaryProjectFields" -> {ensureHasNecessaryProjectFields(p)}
      [] validator = "verifyTaskDependencies" -> {verifyTaskDependencies(p)}
      [] validator = "verifyTaskRequirements" -> {verifyTaskRequirements(p)}
      [] validator = "validateTaskNames" -> {validateTaskNames(p)}
      [] validator = "validateBVNames" -> validateBVNames(p)
      [] validator = "validateBVBatchTimes" -> {validateBVBatchTimes(p)}
      [] validator = "validateDisplayTaskNames" -> {validateDisplayTaskNames(p)}
      [] validator = "validateBVTaskNames" -> {validateBVTaskNames(p)}
      [] validator = "validateBVsContainTasks" -> {validateBVsContainTasks(p)}
      [] validator = "checkAllDependenciesSpec" -> {checkAllDependenciesSpec(p)}
      [] validator = "validateProjectTaskNames" -> {validateProjectTaskNames(p)}
      [] validator = "validateProjectTaskIdsAndTags" -> {validateProjectTaskIdsAndTags(p)}
      [] validator = "validateTaskGroups" -> validateTaskGroups(p)
      [] validator = "validateCreateHosts" -> {validateCreateHosts(p)}
      [] validator = "validateDuplicateBVTasks" -> {validateDuplicateBVTasks(p)}
      [] validator = "validateGenerateTasks" -> {validateGenerateTasks(p)}
      [] validator = "checkTaskCommands" -> {checkTaskCommands(p)}
      [] validator = "checkTaskGroups" -> checkTaskGroups(p)
      [] validator = "checkLoggerConfig" -> {checkLoggerConfig(p)}
      [] validator = "validateTaskSyncSettings" -> {validateTaskSyncSettings(p, ref)}

\* ValidationErrorsToString: the messages, one per line
ValidationErrorsToString(ves) == [k \in DOMAIN ves |-> ves[k].Message]

\* mutant: the findings of every level are surfaced
CatcherErrorf_AnyLevel(label, findings) ==
    IF Len(findings) # 0
    THEN <<[label |-> label, text |-> ValidationErrorsToString(findings)]>>
    ELSE <<>>

\* what one battery adds to the catcher
CatcherErrorf(label, findings) ==
    IF Len(findings) # 0 /\ Len(AtLevel(findings, Error)) # 0
    THEN <<[label |-> label,
            text |-> ValidationErrorsToString(AtLevel(findings, Error))]>>
    ELSE <<>>

walkVars == <<allNodes, tvToTaskUnit, visited, stack, todo, errs, call, out, loop>>

\* catcher := grip.NewBasicCatcher(); syntaxErrs := CheckProjectSyntax(project)
CheckProjectConfigurationIsValid ==
    /\ pc = "CheckProjectConfigurationIsValid"
    /\ valid' = NoValid
    /\ battery' = [name |-> "syntax", next |-> 1, ends |-> <<>>]
    /\ validationErrs' = <<>>
    /\ pc' = "CheckProjectSyntax"
    /\ UNCHANGED <<project, parked, env, walkVars, run, prevErrs>>

\* for _, projectSyntaxValidator := range projectSyntaxValidators: one
\* validator that returns in one step, or the call of one that walks
projectSyntaxValidator ==
    /\ pc = "CheckProjectSyntax"
    /\ battery.next <= Len(projectSyntaxValidators)
    /\ LET validator == projectSyntaxValidators[battery.next]
       IN IF validator \in Walks
          THEN /\ pc' = validator
               /\ UNCHANGED <<validationErrs, battery>>
          ELSE /\ \E findings \in ValidatorResults(validator, project, env) :
                     validationErrs' = AppendFindings(validationErrs, findings)
               /\ battery' = NextValidator(battery, validationErrs')
               /\ pc' = pc
    /\ UNCHANGED <<project, parked, env, valid, walkVars, run, prevErrs>>

\* the distro query and ensureReferentialIntegrity, and the return
checkProjectSyntaxReturns ==
    /\ pc = "CheckProjectSyntax"
    /\ battery.next = Len(projectSyntaxValidators) + 1
    /\ LET found == getDistrosForProject(project.Identifier, env)
       IN validationErrs' =
              AppendFindings(
                  AppendFindings(validationErrs,
                      IF found.err # <<>>
                      THEN <<Finding(Error, <<"can't get distros from database">>)>>
                      ELSE <<>>),
                  ensureReferentialIntegrity(project, found.ids, found.aliases))
    /\ pc' = "syntaxErrs"
    /\ UNCHANGED <<project, parked, env, battery, valid, walkVars, run, prevErrs>>

\* the catcher takes the syntax errors; semanticErrs := CheckProjectSemantics(project)
syntaxChecked ==
    /\ pc = "syntaxErrs"
    /\ valid' = [valid EXCEPT
           !.syntaxErrs = validationErrs,
           !.catcher = @ \o CatcherErrorf("project contains syntax errors", validationErrs)]
    /\ battery' = [name |-> "semantic", next |-> 1, ends |-> <<>>]
    /\ validationErrs' = <<>>
    /\ pc' = "CheckProjectSemantics"
    /\ UNCHANGED <<project, parked, env, walkVars, run, prevErrs>>

projectSemanticValidator ==
    /\ pc = "CheckProjectSemantics"
    /\ battery.next <= Len(projectSemanticValidators)
    /\ \E findings \in ValidatorResults(projectSemanticValidators[battery.next],
                                        project, env) :
          validationErrs' = AppendFindings(validationErrs, findings)
    /\ battery' = NextValidator(battery, validationErrs')
    /\ UNCHANGED <<project, parked, env, pc, valid, walkVars, run, prevErrs>>

\* the catcher takes the semantic errors; CheckProjectSettings(project, pref)
semanticsChecked ==
    /\ pc = "CheckProjectSemantics"
    /\ battery.next = Len(projectSemanticValidators) + 1
    /\ valid' = [valid EXCEPT
           !.semanticErrs = validationErrs,
           !.catcher = @ \o CatcherErrorf("project contains semantic errors", validationErrs)]
    /\ battery' = [name |-> "settings", next |-> 1, ends |-> <<>>]
    /\ validationErrs' = <<>>
    /\ pc' = "CheckProjectSettings"
    /\ UNCHANGED <<project, parked, env, walkVars, run, prevErrs>>

projectSettingsValidator ==
    /\ pc = "CheckProjectSettings"
    /\ battery.next <= Len(projectSettingsValidators)
    /\ \E findings \in ValidatorResults(projectSettingsValidators[battery.next],
                                        project, env) :
          validationErrs' = AppendFindings(validationErrs, findings)
    /\ battery' = NextValidator(battery, validationErrs')
    /\ UNCHANGED <<project, parked, env, pc, valid, walkVars, run, prevErrs>>

\* the catcher takes the settings errors; return catcher.Resolve()
settingsChecked ==
    /\ pc = "CheckProjectSettings"
    /\ battery.next = Len(projectSettingsValidators) + 1
    /\ valid' = [valid EXCEPT
           !.settingsErrs = validationErrs,
           !.catcher = @ \o CatcherErrorf("project contains errors related to project settings",
                                          validationErrs)]
    /\ out' = valid'.catcher
    /\ battery' = NoBattery
    /\ validationErrs' = <<>>
    /\ pc' = "done"
    /\ UNCHANGED <<project, parked, env, allNodes, tvToTaskUnit, visited, stack, todo, errs,
                   call, loop, run, prevErrs>>

-----------------------------------------------------------------------------
(* Projects and catalogs of the battery specification: tasks a and b on    *)
(* variant v1                                                              *)

d2 == <<"d", "2">>
alias1 == <<"a", "l">>

NamelessUnit == BVTU(EmptyName, FALSE, <<d1>>, <<>>, NoSkips)

ValidUnits ==
    {<<PlainUnit(tA), PlainUnit(tB)>>,
     <<PlainUnit(tA), BVTU(tB, FALSE, <<alias1, d2>>, <<>>, NoSkips)>>,
     <<PlainUnit(tA), PlainUnit(tB), PlainUnit(tX), NamelessUnit>>}

ValidProject(aDeps, aCmds, bCmds, units, runOn) ==
    Project(<<ProjectTask(tA, aDeps, aCmds, NoSkips),
              ProjectTask(tB, <<>>, bCmds, NoSkips)>>,
            <<BuildVariant(v1, v1, units, runOn)>>,
            <<>>, <<>>, <<>>)

ValidProjects ==
    {ValidProject(aDeps, aCmds, bCmds, units, runOn) :
        aDeps \in {<<>>, <<Dep(tB, EmptyName, "", FALSE)>>},
        aCmds \in {<<>>, <<Pull([task |-> StringParam(tB)])>>,
                   <<Cmd(S3PushCommandName), Cmd(S3PushCommandName)>>},
        bCmds \in {<<>>, <<Cmd(S3PushCommandName)>>},
        units \in ValidUnits,
        runOn \in {<<>>, <<d2>>}}

\* s3.push and s3.pull in the project's pre and post sections and in task a
SectionProject(pre, post, aCmds) ==
    Project(<<ProjectTask(tA, <<>>, aCmds, NoSkips),
              ProjectTask(tB, <<>>, <<>>, NoSkips)>>,
            <<BuildVariant(v1, v1, <<PlainUnit(tA), PlainUnit(tB)>>, <<d1>>)>>,
            <<>>, pre, post)

SectionProjects ==
    {SectionProject(pre, post, aCmds) :
        pre \in {<<>>, <<Cmd(S3PushCommandName)>>,
                 <<Pull([task |-> StringParam(tB)])>>},
        post \in {<<>>, <<Cmd(S3PushCommandName)>>},
        aCmds \in {<<>>, <<Cmd(S3PushCommandName)>>}}

\* projects that several checks object to at once: a task name with '|',
\* task a calling createHost four times and generate.tasks twice and pulling
\* from task b, which pushes nothing, a dependency cycle between a and b,
\* task a listed twice on the variant, and a task unit of an undefined task
MessyProject(cyclic, twice, badName, units) ==
    Project(<<ProjectTask(tA, <<Dep(tB, EmptyName, "", FALSE)>>,
                  Repeat(Cmd(CreateHostCommandName), 4)
                  \o Repeat(Cmd(GenerateTasksCommandName), 2)
                  \o <<Pull([task |-> StringParam(tB)])>>, NoSkips),
              ProjectTask(tB, IF cyclic THEN <<Dep(tA, EmptyName, "", FALSE)>> ELSE <<>>,
                  <<>>, NoSkips)>>
            \o (IF badName THEN <<ProjectTask(<<"a", "|">>, <<>>, <<>>, NoSkips)>>
                ELSE <<>>),
            <<BuildVariant(v1, v1,
                  <<PlainUnit(tA), PlainUnit(tB)>>
                  \o (IF twice THEN <<PlainUnit(tA)>> ELSE <<>>) \o units, <<d2>>)>>,
            <<>>, <<>>, <<>>)

MessyProjects ==
    {MessyProject(cyclic, twice, badName, units) :
        cyclic \in BOOLEAN, twice \in BOOLEAN, badName \in BOOLEAN,
        units \in {<<>>, <<PlainUnit(tX)>>}}

\* the catalog holds distro d1 with one alias; the query succeeds or fails
Catalogs ==
    {Env(<<Distro(d1, <<alias1>>, <<>>)>>, findErr, configEnabled) :
        findErr \in {<<>>, <<"connection refused">>}, configEnabled \in BOOLEAN}

InitValid ==
    /\ parked = NoParked
    /\ project \in ValidProjects \cup SectionProjects \cup MessyProjects
    /\ env \in Catalogs
    /\ validationErrs = <<>>
    /\ battery = NoBattery
    /\ valid = NoValid
    /\ loop = NoLoop
    /\ pc = "CheckProjectConfigurationIsValid"
    /\ allNodes = <<>>
    /\ tvToTaskUnit = <<>>
    /\ visited = <<>>
    /\ stack = NoFrames
    /\ todo = {}
    /\ errs = <<>>
    /\ run = 1
    /\ prevErrs = <<>>
    /\ call = <<>>
    /\ out = <<>>

NextValid ==
    \/ CheckProjectConfigurationIsValid
    \/ projectSyntaxValidator
    \/ checkDependencyGraph
    \/ cycleTopLevel
    \/ cycleNextDependency
    \/ cycleRecurse
    \/ cycleReturn
    \/ dependencyGraphChecked
    \/ validateTaskSyncCommands
    \/ pullNextTask
    \/ pullCommand
    \/ mustRunNextDependency
    \/ mustRunRecurse
    \/ mustRunReturn
    \/ taskSyncCommandsValidated
    \/ checkProjectSyntaxReturns
    \/ syntaxChecked
    \/ projectSemanticValidator
    \/ semanticsChecked
    \/ projectSettingsValidator
    \/ settingsChecked

SpecValid == InitValid /\ [][NextValid]_vars

-----------------------------------------------------------------------------
(* Two callers of the validator at the same time. What a call declares     *)
(* (errs, visited, allNodes, the node map, the loop positions) is its own: *)
(* the running caller's locals are the variables, and those of the caller  *)
(* that is not running are parked until it is scheduled again.             *)

Callers == {1, 2}

\* the locals of the running call
Locals(caller) ==
    [caller |-> caller, project |-> project, pc |-> pc, allNodes |-> allNodes,
     tvToTaskUnit |-> tvToTaskUnit, visited |-> visited, stack |-> stack,
     todo |-> todo, errs |-> errs, run |-> run, call |-> call, out |-> out,
     loop |-> loop]

\* the locals a call starts with
EntryLocals(caller, p, entry) ==
    [caller |-> caller, project |-> p, pc |-> entry, allNodes |-> <<>>,
     tvToTaskUnit |-> <<>>, visited |-> <<>>, stack |-> NoFrames, todo |-> {},
     errs |-> <<>>, run |-> 2, call |-> <<>>, out |-> <<>>, loop |-> NoLoop]

Running == CHOOSE c \in Callers : c # parked.caller

Returns(locals) == locals.pc \in {"done", "returned"}

\* mutant: one visited map for every caller
VisitedOfCall_Shared(own, others) == others

\* visited := map[model.TVPair]bool{} is a local of the call: the map a
\* caller finds when it is scheduled is its own, not the other caller's
VisitedOfCall(own, others) == own

\* the scheduler stops the running caller and lets the other one run
yield ==
    /\ parked # NoParked
    /\ ~Returns(parked)
    /\ parked' = Locals(Running)
    /\ project' = parked.project
    /\ pc' = parked.pc
    /\ allNodes' = parked.allNodes
    /\ tvToTaskUnit' = parked.tvToTaskUnit
    /\ visited' = VisitedOfCall(parked.visited, visited)
    /\ stack' = parked.stack
    /\ todo' = parked.todo
    /\ errs' = parked.errs
    /\ run' = parked.run
    /\ call' = parked.call
    /\ out' = parked.out
    /\ loop' = parked.loop
    /\ UNCHANGED <<batteryVars, prevErrs>>

\* tasks a and b on variant v1; a pulls from b, which pushes
ConcurrentProject(aDeps, bDeps) ==
    Project(<<ProjectTask(tA, aDeps, <<Pull([task |-> StringParam(tB)])>>, NoSkips),
              ProjectTask(tB, bDeps, <<Cmd(S3PushCommandName)>>, NoSkips)>>,
            <<BuildVariant(v1, v1, <<PlainUnit(tA), PlainUnit(tB)>>, <<>>)>>,
            <<>>, <<>>, <<>>)

ConcurrentProjects ==
    {ConcurrentProject(aDeps, bDeps) :
        aDeps \in {<<>>, <<Dep(tB, EmptyName, "", FALSE)>>,
                   <<Dep(tX, EmptyName, "", FALSE)>>,
                   <<Dep(tB, EmptyName, TaskFailed, FALSE),
                     Dep(tX, EmptyName, "", FALSE)>>},
        bDeps \in {<<>>, <<Dep(tA, EmptyName, "", FALSE)>>}}

EntryPoints == {"checkDependencyGraph", "validateTaskSyncCommands"}

InitConcurrent ==
    /\ \E p1 \in ConcurrentProjects, p2 \in ConcurrentProjects,
          e1 \in EntryPoints, e2 \in EntryPoints :
          /\ parked = EntryLocals(2, p2, e2)
          /\ project = p1
          /\ pc = e1
    /\ allNodes = <<>>
    /\ tvToTaskUnit = <<>>
    /\ visited = <<>>
    /\ stack = NoFrames
    /\ todo = {}
    /\ errs = <<>>
    /\ run = 2
    /\ prevErrs = <<>>
    /\ call = <<>>
    /\ out = <<>>
    /\ loop = NoLoop
    /\ env = NoEnv
    /\ validationErrs = <<>>
    /\ battery = NoBattery
    /\ valid = NoValid

NextConcurrent ==
    \/ yield
    \/ checkDependencyGraph
    \/ cycleTopLevel
    \/ cycleNextDependency
    \/ cycleRecurse
    \/ cycleReturn
    \/ dependencyGraphChecked
    \/ validateTaskSyncCommands
    \/ pullNextTask
    \/ pullCommand
    \/ mustRunNextDependency
    \/ mustRunRecurse
    \/ mustRunReturn
    \/ taskSyncCommandsValidated

SpecConcurrent == InitConcurrent /\ [][NextConcurrent]_vars

-----------------------------------------------------------------------------
(* One call of either walk, run to its return: the caller is one goroutine *)
(* that takes its next step whenever it has one                            *)

\* tasks a, b, c on variant v1, a pulling from c: the chain a -> b -> c, the
\* cycle a -> b -> a and the undefined task x
TerminationDeps == {SyncCandidateDeps[i] : i \in {1, 2, 5, 6}}

TerminationProjects ==
    {SyncGraphProject(chosen, NoSkips, NoSkips) : chosen \in SUBSET TerminationDeps}

InitTermination ==
    /\ parked = NoParked
    /\ project \in TerminationProjects
    /\ pc \in EntryPoints
    /\ allNodes = <<>>
    /\ tvToTaskUnit = <<>>
    /\ visited = <<>>
    /\ stack = NoFrames
    /\ todo = {}
    /\ errs = <<>>
    /\ run = 2
    /\ prevErrs = <<>>
    /\ call = <<>>
    /\ out = <<>>
    /\ loop = NoLoop
    /\ env = NoEnv
    /\ validationErrs = <<>>
    /\ battery = NoBattery
    /\ valid = NoValid

NextTermination ==
    \/ checkDependencyGraph
    \/ cycleTopLevel
    \/ cycleNextDependency
    \/ cycleRecurse
    \/ cycleReturn
    \/ dependencyGraphChecked
    \/ validateTaskSyncCommands
    \/ pullNextTask
    \/ pullCommand
    \/ mustRunNextDependency
    \/ mustRunRecurse
    \/ mustRunReturn
    \/ taskSyncCommandsValidated

SpecTermination ==
    InitTermination /\ [][NextTermination]_vars /\ WF_vars(NextTermination)

-----------------------------------------------------------------------------
(* What a call returns when it runs alone: the two walks as functions of   *)
(* the project, over every order in which Go may range over the maps       *)

\* dependencyCycleExists(node, nodes, vis, m): the visited map it leaves and
\* the error it returns, <<>> being nil
RECURSIVE CycleOutcomes(_, _, _, _)
RECURSIVE CycleOutcomesOfEach(_, _, _, _)
CycleOutcomes(m, nodes, vis, node) ==
    LET outcome == CycleVisit(vis, node)
    IN IF outcome # "enter"
       THEN {[vis |-> vis, err |-> <<outcome, node>>]}
       ELSE LET deps == DependenciesForTaskUnit(node, m[node], nodes)
                entered == [vis EXCEPT ![node] = TRUE]
            IN UNION {
                 {IF o.err = <<>> THEN [o EXCEPT !.vis[node] = FALSE] ELSE o :
                     o \in CycleOutcomesOfEach(m, nodes, entered,
                              Flatten([k \in DOMAIN order |-> deps[order[k]]]))} :
                 order \in Orderings(DOMAIN deps)}

CycleOutcomesOfEach(m, nodes, vis, depNodes) ==
    IF depNodes = <<>> THEN {[vis |-> vis, err |-> <<>>]}
    ELSE UNION {IF o.err # <<>> THEN {o}
                ELSE CycleOutcomesOfEach(m, nodes, o.vis, Tail(depNodes)) :
                o \in CycleOutcomes(m, nodes, vis, Head(depNodes))}

\* errs once the top-level loop has walked from the nodes of tops, in order
RECURSIVE CycleWalks(_, _, _, _, _)
CycleWalks(m, nodes, vis, tops, found) ==
    IF tops = <<>> THEN {found}
    ELSE UNION {CycleWalks(m, nodes, o.vis, Tail(tops),
                    IF o.err = <<>> THEN found
                    ELSE Append(found,
                             DependencyError(Head(tops), o.err[1], o.err[2]))) :
                o \in CycleOutcomes(m, nodes, vis, Head(tops))}

checkDependencyGraphAlone(p) ==
    LET m == TvToTaskUnit(p)
    IN UNION {UNION {CycleWalks(m, nodes, [n \in DOMAIN m |-> FALSE], tops, <<>>) :
                        tops \in Orderings(DOMAIN m)} :
              nodes \in Orderings(DOMAIN m)}

\* dependencyMustRun(target, current, depReqs, nodes, vis, m), called by
\* depth callers: the visited map it leaves and <<"found">>,
\* <<"unreachable">> or the error <<kind, node, depth>>
RECURSIVE MustRunOutcomes(_, _, _, _, _, _, _)
RECURSIVE MustRunOfDeps(_, _, _, _, _, _, _)
RECURSIVE MustRunOfNodes(_, _, _, _, _, _, _)
MustRunOutcomes(m, nodes, vis, current, last, depth, c) ==
    LET outcome == MustRunVisit(vis, m, current, c.target, c.reqs, last)
    IN IF outcome \in {"missing", "cycle"}
       THEN {[vis |-> vis, res |-> <<outcome, current, depth>>]}
       ELSE IF outcome # "enter"
       THEN {[vis |-> vis, res |-> <<outcome>>]}
       ELSE LET deps == DependenciesForTaskUnit(current, m[current], nodes)
                entered == [vis EXCEPT ![current] = TRUE]
            IN UNION {
                 {IF o.res[1] = "unreachable"
                  THEN [o EXCEPT !.vis[current] = FALSE] ELSE o :
                     o \in MustRunOfDeps(m, nodes, entered, deps, order, depth, c)} :
                 order \in Orderings(DOMAIN deps)}

\* the loop over the dependencies left in order
MustRunOfDeps(m, nodes, vis, deps, order, depth, c) ==
    IF order = <<>> THEN {[vis |-> vis, res |-> <<"unreachable">>]}
    ELSE LET dep == Head(order)
         IN IF c.reqs.requireOnPatches /\ dep.PatchOptional
            THEN MustRunOfDeps(m, nodes, vis, deps, Tail(order), depth, c)
            ELSE UNION {IF o.res[1] # "unreachable" THEN {o}
                        ELSE MustRunOfDeps(m, nodes, o.vis, deps, Tail(order),
                                           depth, c) :
                        o \in MustRunOfNodes(m, nodes, vis, deps[dep],
                                 LastDepNeedsSuccess(dep), depth, c)}

\* the loop over the nodes of one dependency
MustRunOfNodes(m, nodes, vis, depNodes, last, depth, c) ==
    IF depNodes = <<>> THEN {[vis |-> vis, res |-> <<"unreachable">>]}
    ELSE UNION {IF o.res[1] # "unreachable" THEN {o}
                ELSE MustRunOfNodes(m, nodes, o.vis, Tail(depNodes), last,
                                    depth, c) :
                o \in MustRunOutcomes(m, nodes, vis, Head(depNodes), last,
                                      depth + 1, c)}

\* the findings of the loop body for one s3.pull command of task source
PullFindingsAlone(p, m, source, cmd) ==
    LET parsed == parseS3PullParameters(cmd)
        target == TV(IF parsed.bv = EmptyName THEN source.Variant ELSE parsed.bv,
                     parsed.task)
        depFinding(depErr) ==
            <<Finding(Error, <<"problem validating that task running command depends on task running command",
                               S3PullCommandName, S3PushCommandName, depErr>>)>>
    IN IF parsed.err # <<>>
       THEN {<<Finding(Error, <<"could not parse parameters for command",
                                cmd.Command, parsed.err>>)>>}
       ELSE IF source = target
       THEN {depFinding(<<"task cannot depend on itself", source>>)
             \o PushFindings(p, target)}
       ELSE IF source \notin DOMAIN m
       THEN {depFinding(<<"could not find task in build variant", source>>)
             \o PushFindings(p, target)}
       ELSE LET c == [source |-> source, target |-> target,
                      reqs |-> DependencyRequirements(m[source])]
            IN UNION {
                 {(IF o.res[1] = "found" THEN <<>>
                   ELSE IF o.res[1] = "unreachable"
                   THEN depFinding(MustDependError(source, target, c.reqs))
                   ELSE depFinding(SearchError(source, target, o.res[1],
                                               o.res[2], o.res[3])))
                  \o PushFindings(p, target) :
                     o \in MustRunOutcomes(m, nodes, [n \in DOMAIN m |-> FALSE],
                                           source, TRUE, 0, c)} :
                 nodes \in Orderings(DOMAIN m)}

validateTaskSyncCommandsAlone(p) ==
    LET m == TvToTaskUnit(p)
        bvToTaskCmds == bvsWithTasksThatCallCommand(p, S3PullCommandName)
        first == validateTimesCalledPerTask(p,
                     TasksThatCallCommand(p, S3PushCommandName),
                     S3PushCommandName, 1, Warning)
                 \o (IF bvToTaskCmds.err = <<>> THEN <<>>
                     ELSE <<Finding(Error, <<"could not generate map of build variants with tasks that call command",
                                             S3PullCommandName, bvToTaskCmds.err>>)>>)
        \* the tasks of one build variant are ranged over together
        byVariant(order) ==
            \A i, j, k \in DOMAIN order :
                (i < j /\ j < k /\ order[i].Variant = order[k].Variant)
                    => order[j].Variant = order[i].Variant
        ofTask(tv) ==
            ConcatOfEach([k \in DOMAIN bvToTaskCmds.map[tv] |->
                PullFindingsAlone(p, m, tv, bvToTaskCmds.map[tv][k])])
    IN UNION {{first \o rest :
                  rest \in ConcatOfEach([k \in DOMAIN order |-> ofTask(order[k])])} :
              order \in {o \in Orderings(DOMAIN bvToTaskCmds.map) : byVariant(o)}}

-----------------------------------------------------------------------------
(* The specification of the validators that are one call each *)

Call_validateTaskNames ==
    /\ Returned("validateTaskNames", validateTaskNames(project))
    /\ UNCHANGED call

\* the task-dependency warnings come in the order the map of tasks is ranged
Call_checkTaskGroups ==
    /\ \E findings \in checkTaskGroups(project) :
          Returned("checkTaskGroups", findings)
    /\ UNCHANGED call

\* dependenciesForTaskUnit(tv, taskUnit, allTVs) for a node of the node map,
\* allTVs in one of the orders the range over the map can give
Call_dependenciesForTaskUnit ==
    /\ pc = "idle"
    /\ \E tv \in DOMAIN TvToTaskUnit(project) :
          \E allTVs \in Orderings(DOMAIN TvToTaskUnit(project)) :
              /\ call' = [tv |-> tv, allTVs |-> allTVs]
              /\ out' = DependenciesForTaskUnit(tv, TvToTaskUnit(project)[tv], allTVs)
    /\ pc' = "dependenciesForTaskUnit"
    /\ UNCHANGED <<project, parked, batteryVars, loop, dfsVars, errs, run, prevErrs>>

\* the display-name warnings come in the order the map of display names is
\* ranged
Call_validateBVNames ==
    /\ \E findings \in validateBVNames(project) :
          Returned("validateBVNames", findings)
    /\ UNCHANGED call

NextChecks ==
    \/ Call_validateTaskNames
    \/ Call_checkTaskGroups
    \/ Call_checkAllDependenciesSpec
    \/ Call_validateDuplicateBVTasks
    \/ Call_validateCreateHosts
    \/ Call_validateGenerateTasks
    \/ Call_validateTimesCalledPerTask
    \/ Call_dependenciesForTaskUnit
    \/ Call_validateBVNames

SpecChecks == InitChecks /\ [][NextChecks]_vars

-----------------------------------------------------------------------------
(* The dependency graph of a node map m, as a relation *)

\* the nodes one dependency edge away from n (some may be missing from the map)
Successors(m, n) ==
    LET anyOrder == SomeOrdering(DOMAIN m)
    IN UNION {Range(NodesOfDependency(n, m[n].DependsOn[i], anyOrder)) :
                 i \in DOMAIN m[n].DependsOn}

RECURSIVE Closure(_, _, _)
Closure(m, frontier, seen) ==
    IF frontier \subseteq seen THEN seen
    ELSE Closure(m,
             UNION {Successors(m, n) : n \in (frontier \ seen) \cap DOMAIN m},
             seen \cup frontier)

\* the nodes reachable from n by one or more edges
ReachableFrom(m, n) == Closure(m, Successors(m, n), {})

OnCycle(m, n) == n \in DOMAIN m /\ n \in ReachableFrom(m, n)

HasCycle(m) == \E n \in DOMAIN m : OnCycle(m, n)

AllTargetsExist(m) == \A n \in DOMAIN m : Successors(m, n) \subseteq DOMAIN m

\* every top-level walk of the running checkDependencyGraph has returned
GraphChecked ==
    \/ pc = "dependencyCycleExists" /\ stack = NoFrames /\ todo = {}
    \/ pc = "done"

IsCycleFinding(f) ==
    /\ f.Message[1] = "dependency error for task"
    /\ f.Message[3] = "dependency is part of a dependency cycle"

-----------------------------------------------------------------------------
(* Claims *)

\* C1: determinism. Two calls of checkDependencyGraph on the same project
\* return the same findings: same count, levels and messages, same order.
C1_Deterministic == pc = "done" => errs = prevErrs

\* C2: acyclicity soundness. When the dependency graph has a cycle and every
\* dependency target is a node, checkDependencyGraph returns, for every
\* iteration order, an Error finding that reports a node lying on a cycle.
C2_CycleReported ==
    (GraphChecked /\ HasCycle(tvToTaskUnit) /\ AllTargetsExist(tvToTaskUnit))
        => \E i \in DOMAIN errs :
              /\ errs[i].Level = Error
              /\ IsCycleFinding(errs[i])
              /\ OnCycle(tvToTaskUnit, errs[i].Message[4])

\* a cyclic project whose walks are over and reported a node of the cycle,
\* while some other node lies on no cycle
C2_Witness ==
    /\ GraphChecked /\ HasCycle(tvToTaskUnit) /\ AllTargetsExist(tvToTaskUnit)
    /\ \E i \in DOMAIN errs :
          IsCycleFinding(errs[i]) /\ OnCycle(tvToTaskUnit, errs[i].Message[4])
    /\ \E n \in DOMAIN tvToTaskUnit : ~OnCycle(tvToTaskUnit, n)

\* C3: sentinel exclusivity. Every task whose dependency list holds an
\* AllDependencies entry and a second entry on the same variant gets an
\* error finding from checkAllDependenciesSpec.
MixesAllDependencies(deps) ==
    \E i, j \in DOMAIN deps :
        /\ i # j
        /\ deps[i].Name = AllDependencies
        /\ deps[i].Variant = deps[j].Variant

C3_SentinelExclusive ==
    pc = "checkAllDependenciesSpec"
        => \A i \in DOMAIN project.Tasks :
              MixesAllDependencies(project.Tasks[i].DependsOn)
                  => \E k \in DOMAIN errs :
                        /\ errs[k].Level = Error
                        /\ errs[k].Message[2] = project.Tasks[i].Name

\* C5: distro query failure. When the distro query fails, the result of
\* CheckProjectSyntax holds exactly one error finding that carries the raw
\* error of the query, and no finding of ensureReferentialIntegrity
\* (non-existent task, nameless task, nonexistent distro).
IsDistroFailure(f) == f.Message[1] = "can't get distros from database"

IsIntegrityFinding(f) ==
    f.Message[1] \in
        {"tasks for buildvariant in project must each have a name field",
         "buildvariant in project references a non-existent task",
         "task in buildvariant in project references a nonexistent distro",
         "buildvariant in project references a nonexistent distro"}

C5_DistroFailureSkipsIntegrity ==
    (pc = "syntaxErrs" /\ env.findErr # <<>>) =>
        /\ Cardinality({k \in DOMAIN validationErrs :
                           /\ validationErrs[k].Level = Error
                           /\ IsDistroFailure(validationErrs[k])
                           /\ Len(validationErrs[k].Message) > 1
                           /\ validationErrs[k].Message[2] = env.findErr[1]}) = 1
        /\ \A k \in DOMAIN validationErrs : ~IsIntegrityFinding(validationErrs[k])

\* C6: the aggregator surfaces errors only. CheckProjectConfigurationIsValid
\* returns a non-nil error exactly when some battery produced an Error-level
\* finding; the error has one labelled part, holding the Error-level
\* messages, for each battery that has Error-level findings, in the order
\* syntax, semantic, settings, and no part for a battery with warnings only.
HasErrors(findings) == \E k \in DOMAIN findings : findings[k].Level = Error

C6_ErrorsOnly ==
    pc = "done" =>
        LET batteries ==
                <<[label |-> "project contains syntax errors",
                   findings |-> valid.syntaxErrs],
                  [label |-> "project contains semantic errors",
                   findings |-> valid.semanticErrs],
                  [label |-> "project contains errors related to project settings",
                   findings |-> valid.settingsErrs]>>
            withErrors == SelectSeq(batteries, LAMBDA b : HasErrors(b.findings))
        IN /\ (out # <<>>) <=> (\E k \in DOMAIN batteries : HasErrors(batteries[k].findings))
           /\ Len(out) = Len(withErrors)
           /\ \A k \in DOMAIN out :
                 /\ out[k].label = withErrors[k].label
                 /\ LET errors == SelectSeq(withErrors[k].findings,
                                            LAMBDA f : f.Level = Error)
                    IN out[k].text = [n \in DOMAIN errors |-> errors[n].Message]

\* the syntax and semantic batteries returned warnings only and the settings
\* battery an error: the error returned has the settings part alone
C6_Witness ==
    /\ pc = "done"
    /\ valid.syntaxErrs # <<>> /\ ~HasErrors(valid.syntaxErrs)
    /\ valid.semanticErrs # <<>> /\ ~HasErrors(valid.semanticErrs)
    /\ HasErrors(valid.settingsErrs)
    /\ Len(out) = 1
    /\ out[1].label = "project contains errors related to project settings"

\* C7: severity partitioning. AtLevel(L) applied twice equals AtLevel(L)
\* applied once; every finding of F is in exactly one of AtLevel(Error) and
\* AtLevel(Warning); AtLevel(L) is F's findings of level L in F's order.
RECURSIVE AtPositions(_, _)
AtPositions(F, positions) ==
    IF positions = {} THEN <<>>
    ELSE LET first == CHOOSE i \in positions : \A j \in positions : i <= j
         IN <<F[first]>> \o AtPositions(F, positions \ {first})

C7_SeverityPartition ==
    /\ pc = "AtLevelAgain" => errs = out
    /\ pc = "AtLevel" =>
          LET F == prevErrs
              other == AtLevel(F, IF call.level = Error THEN Warning ELSE Error)
          IN /\ \A i \in DOMAIN F : Contains(errs, F[i]) # Contains(other, F[i])
             /\ Len(errs) + Len(other) = Len(F)
             /\ errs = AtPositions(F, {i \in DOMAIN F : F[i].Level = call.level})

\* findings of both levels, filtered twice, some kept and some dropped
C7_Witness ==
    /\ pc = "AtLevelAgain"
    /\ \E i, j \in DOMAIN prevErrs : prevErrs[i].Level # prevErrs[j].Level
    /\ Len(errs) = 2
    /\ Len(prevErrs) = 3

\* C9: duplicate detection through task-group expansion. Per build variant,
\* with group units replaced by their members, validateDuplicateBVTasks
\* returns exactly one Error for every occurrence of a task name after its
\* first in that variant, and nothing for a task that recurs only on
\* another variant.
NamesOnVariant(p, bv) ==
    Flatten([j \in DOMAIN bv.Tasks |-> NamesOfUnit(p, bv.Tasks[j])])

Occurrences(names, name) == Cardinality({k \in DOMAIN names : names[k] = name})

C9_DuplicatesReported ==
    pc = "validateDuplicateBVTasks" =>
        /\ \A k \in DOMAIN errs : errs[k].Level = Error
        /\ \A i \in DOMAIN project.BuildVariants :
              LET bv == project.BuildVariants[i]
                  names == NamesOnVariant(project, bv)
              IN \A name \in {tA, tB, tG, tH} :
                    Cardinality({k \in DOMAIN errs :
                        errs[k].Message[2] = name /\ errs[k].Message[3] = bv.Name})
                    = IF Occurrences(names, name) = 0 THEN 0
                      ELSE Occurrences(names, name) - 1

\* task b is listed directly and again through group g on v1 and reported;
\* task a runs on v1 and on v2 and is not
C9_Witness ==
    /\ pc = "validateDuplicateBVTasks"
    /\ Contains(project.BuildVariants[1].Tasks, GroupUnit(tG))
    /\ Contains(project.BuildVariants[1].Tasks, PlainUnit(tB))
    /\ Contains(project.BuildVariants[1].Tasks, PlainUnit(tA))
    /\ \E k \in DOMAIN errs : errs[k].Message[2] = tB /\ errs[k].Message[3] = v1
    /\ \A k \in DOMAIN errs : errs[k].Message[2] # tA

\* C10: per-task call cap. validateTimesCalledPerTask returns one finding per
\* task unit of a build variant whose task calls the command more than the
\* cap, none for a task at or under the cap; Error for createHost (cap 3)
\* and generateTasks (cap 1), Warning for s3.push (cap 1).
CallsOfTask(p, name, find) ==
    Cardinality({<<i, j>> \in (DOMAIN p.Tasks) \X (1..(MaxCalls * 4)) :
        /\ p.Tasks[i].Name = name
        /\ j \in DOMAIN p.Tasks[i].Commands
        /\ p.Tasks[i].Commands[j].Command = find})

UnitsNamed(p, name) ==
    Cardinality({<<i, j>> \in (DOMAIN p.BuildVariants) \X (1..(MaxUnits + 1)) :
        /\ j \in DOMAIN p.BuildVariants[i].Tasks
        /\ p.BuildVariants[i].Tasks[j].Name = name})

C10_PerTaskCap ==
    pc = "validateTimesCalledPerTask" =>
        /\ call.times = (IF call.commandName = CreateHostCommandName THEN 3 ELSE 1)
        /\ \A k \in DOMAIN errs :
              /\ errs[k].Level =
                    (IF call.commandName = S3PushCommandName THEN Warning ELSE Error)
              /\ errs[k].Message[4] = call.commandName
        /\ \A name \in {tA, tB, tC, tG, tH} :
              Cardinality({k \in DOMAIN errs : errs[k].Message[3] = name})
              = IF CallsOfTask(project, name, call.commandName) > call.times
                THEN UnitsNamed(project, name) ELSE 0

\* task a is over the cap on two variants and reported twice; task b, exactly
\* at the cap, is not reported
C10_Witness ==
    /\ pc = "validateTimesCalledPerTask"
    /\ call.commandName = CreateHostCommandName
    /\ CallsOfTask(project, tA, CreateHostCommandName) = 4
    /\ CallsOfTask(project, tB, CreateHostCommandName) = 3
    /\ UnitsNamed(project, tA) = 2
    /\ Len(errs) = 2

-----------------------------------------------------------------------------
(* Dependency paths of the s3.pull check *)

NeedsSuccess(dep) == dep.Status = "" \/ dep.Status = TaskSucceeded

\* the edges n -> t of the node map m given by a dependency that satisfies keep
EdgesOf(m, keep(_)) ==
    LET anyOrder == SomeOrdering(DOMAIN m)
    IN {e \in (DOMAIN m) \X (DOMAIN m \cup UNION {Successors(m, n) : n \in DOMAIN m}) :
           \E i \in DOMAIN m[e[1]].DependsOn :
              /\ keep(m[e[1]].DependsOn[i])
              /\ Contains(NodesOfDependency(e[1], m[e[1]].DependsOn[i], anyOrder), e[2])}

RECURSIVE ReachVia(_, _, _)
ReachVia(edges, frontier, seen) ==
    IF frontier \subseteq seen THEN seen
    ELSE ReachVia(edges,
             {e[2] : e \in {d \in edges : d[1] \in frontier \ seen}},
             seen \cup frontier)

\* the nodes a path of one or more of the edges leads to from n
PathsFrom(edges, n) == ReachVia(edges, {e[2] : e \in {d \in edges : d[1] = n}}, {})

\* edges the walk for a source with requirements reqs can take and count on:
\* success required, not optional on patches the source runs on, and leading
\* to a task that runs whenever the source does
RunEdges(m, reqs) ==
    {e \in EdgesOf(m, LAMBDA dep : NeedsSuccess(dep)
                                   /\ ~(reqs.requireOnPatches /\ dep.PatchOptional)) :
        e[2] \in DOMAIN m /\ ~SkippedWhenRequired(reqs, m[e[2]])}

\* an s3.pull command has just been checked against the dependency graph
PullWalked ==
    /\ pc = "s3.pull"
    /\ out.parsed
    /\ out.source # out.target
    /\ out.source \in DOMAIN tvToTaskUnit

IsDependencyFinding(f) ==
    f.Message[1] = "problem validating that task running command depends on task running command"

IsMustDependFinding(f) ==
    /\ IsDependencyFinding(f)
    /\ f.Message[4][1] = "task must depend on task running and succeeding"

\* C4 as stated: reachability monotonicity. A pull whose target is reachable
\* from the pulling task by a chain of dependencies all of status success
\* (or empty) gets no 'must depend on' error; a pull whose target no path
\* leads to (as after removing an edge of the only path) gets an error of the
\* dependency check.
C4_ReachabilityMonotone ==
    PullWalked =>
        /\ out.target \in PathsFrom(EdgesOf(tvToTaskUnit, NeedsSuccess), out.source)
              => \A i \in DOMAIN out.findings : ~IsMustDependFinding(out.findings[i])
        /\ out.target \notin PathsFrom(EdgesOf(tvToTaskUnit, LAMBDA dep : TRUE), out.source)
              => \E i \in DOMAIN out.findings : IsDependencyFinding(out.findings[i])

\* C4 amended: the chain must also be one the pulling task can count on in
\* every build it runs in: no edge optional on patches when the pulling task
\* runs on patches, and no task on it, the target included, skipped in a mode
\* the pulling task requires. Without any path the dependency check fails,
\* with the 'must depend on' error when the graph has no cycle and no
\* undefined dependency.
C4_ReachabilityMonotoneWhenRun ==
    PullWalked =>
        /\ out.target \in PathsFrom(RunEdges(tvToTaskUnit, DependencyRequirements(
                                         tvToTaskUnit[out.source])), out.source)
              => \A i \in DOMAIN out.findings : ~IsMustDependFinding(out.findings[i])
        /\ out.target \notin PathsFrom(EdgesOf(tvToTaskUnit, LAMBDA dep : TRUE), out.source)
              => /\ \E i \in DOMAIN out.findings : IsDependencyFinding(out.findings[i])
                 /\ (~HasCycle(tvToTaskUnit) /\ AllTargetsExist(tvToTaskUnit))
                       => \E i \in DOMAIN out.findings :
                             IsMustDependFinding(out.findings[i])

\* a pull that passes because of a chain through task b, the direct
\* dependencies on the target not being ones the pulling task can count on
C4_Witness ==
    /\ PullWalked
    /\ out.findings = <<>>
    /\ LET m == tvToTaskUnit
           run1 == RunEdges(m, DependencyRequirements(m[out.source]))
       IN /\ <<out.source, out.target>> \notin run1
          /\ <<out.source, out.target>> \in EdgesOf(m, LAMBDA dep : TRUE)
          /\ out.target \in PathsFrom(run1, out.source)

\* C8: push existence. For every s3.pull command that parses, if the task it
\* names is not defined or runs no s3.push command on the variant it names,
\* an Error finding of the push check names that task; and if the (variant,
\* task) pair is not a node of the project, some Error finding is emitted for
\* the pull. Both hold whether or not the dependency check succeeded.
RunsPush(p, tv) ==
    /\ FindProjectTask(p, tv.TaskName) # <<>>
    /\ \E c \in Range(FindProjectTask(p, tv.TaskName)[1].Commands) :
          /\ c.Command = S3PushCommandName
          /\ (c.Variants = <<>> \/ tv.Variant \in Range(c.Variants))

IsPushFinding(f, target) ==
    /\ f.Level = Error
    /\ \/ /\ f.Message[1] = "problem validating that task runs command"
          /\ f.Message[2] = target.TaskName
       \/ /\ f.Message[1] = "task in build variant does not run command"
          /\ f.Message[2] = target.TaskName
          /\ f.Message[3] = target.Variant

C8_PushExists ==
    (pc = "s3.pull" /\ out.parsed) =>
        /\ ~RunsPush(project, out.target)
              => \E i \in DOMAIN out.findings : IsPushFinding(out.findings[i], out.target)
        /\ out.target \notin DOMAIN tvToTaskUnit
              => \E i \in DOMAIN out.findings : out.findings[i].Level = Error

\* a pull whose dependency check succeeded and whose target runs no s3.push
C8_Witness ==
    /\ PullWalked
    /\ ~RunsPush(project, out.target)
    /\ Len(out.findings) = 1
    /\ IsPushFinding(out.findings[1], out.target)

-----------------------------------------------------------------------------
\* C11: project-total cap. validateCreateHosts returns exactly one Error
\* finding for the total when the createHost calls of the referenced task,
\* summed over every task unit of every build variant, exceed 50, and none
\* when the sum is 50 or less; a task listed k times counts k times.
CallsOnUnits(p, find) ==
    Cardinality(UNION {UNION {UNION {
        {<<i, j, t, k>> : k \in {c \in DOMAIN p.Tasks[t].Commands :
                                    p.Tasks[t].Commands[c].Command = find}} :
            t \in {n \in DOMAIN p.Tasks :
                       p.Tasks[n].Name = p.BuildVariants[i].Tasks[j].Name}} :
        j \in DOMAIN p.BuildVariants[i].Tasks} :
      i \in DOMAIN p.BuildVariants})

IsTotalFinding(f) ==
    f.Message[1] = "project config may only call command n time(s) but it is called m time(s)"

C11_ProjectTotalCap ==
    pc = "validateCreateHosts" =>
        LET total == CallsOnUnits(project, CreateHostCommandName)
            totals == {k \in DOMAIN errs : IsTotalFinding(errs[k])}
        IN /\ Cardinality(totals) = (IF total > 50 THEN 1 ELSE 0)
           /\ \A k \in totals :
                 /\ errs[k].Level = Error
                 /\ errs[k].Message[2] = CreateHostCommandName
                 /\ errs[k].Message[3] = 50
                 /\ errs[k].Message[4] = total

\* task a calls createHost 17 times and is listed on three task units over
\* two variants: 51 calls, one finding for the total
C11_Witness ==
    /\ pc = "validateCreateHosts"
    /\ CallsOfTask(project, tB, CreateHostCommandName) = 0
    /\ Len(project.Tasks[1].Commands) = 17
    /\ UnitsNamed(project, tA) = 3
    /\ \E k \in DOMAIN errs : IsTotalFinding(errs[k]) /\ errs[k].Message[4] = 51

-----------------------------------------------------------------------------
\* C12: task-sync settings. With TaskSync.ConfigEnabled false,
\* CheckProjectSettings returns an Error finding for s3.push if s3.push
\* appears anywhere in the project, and one for s3.pull if s3.pull appears
\* anywhere in the project; with ConfigEnabled true it returns no finding.
CommandSites(p) ==
    p.Pre \o p.Post \o p.Timeout
    \o Flatten([i \in DOMAIN p.Tasks |-> p.Tasks[i].Commands])
    \o Flatten([i \in DOMAIN p.TaskGroups |->
           p.TaskGroups[i].SetupGroup \o p.TaskGroups[i].SetupTask
           \o p.TaskGroups[i].TeardownGroup \o p.TaskGroups[i].TeardownTask])

AppearsAnywhere(p, cmd) ==
    \E k \in DOMAIN CommandSites(p) : CommandSites(p)[k].Command = cmd

CalledByTask(p, cmd) ==
    \E i \in DOMAIN p.Tasks : \E k \in DOMAIN p.Tasks[i].Commands :
        p.Tasks[i].Commands[k].Command = cmd

SettingsFindings(cmd) ==
    {k \in DOMAIN valid.settingsErrs :
        /\ valid.settingsErrs[k].Level = Error
        /\ valid.settingsErrs[k].Message[2] = cmd}

-----------------------------------------------------------------------------
\* C13: task names. validateTaskNames returns an Error finding for every
\* task whose name contains '|' or a whitespace character (space, tab or
\* newline) at any position, leading, inner or trailing, and no finding for
\* a task whose name contains neither.
HasUnauthorizedCharacter(name) ==
    \E k \in DOMAIN name : name[k] \in {"|", " ", "\t", "\n"}

C13_TaskNames ==
    pc = "validateTaskNames" =>
        \A i \in DOMAIN project.Tasks :
            Cardinality({k \in DOMAIN errs :
                            /\ errs[k].Level = Error
                            /\ errs[k].Message[2] = project.Tasks[i].Name})
            = (IF HasUnauthorizedCharacter(project.Tasks[i].Name) THEN 1 ELSE 0)

-----------------------------------------------------------------------------
\* C14: task-group host cap. For every task group, checkTaskGroups returns a
\* Warning when MaxHosts < 1 and a Warning when MaxHosts > len(tasks)/2
\* (integer division), for groups of every size, a group of exactly one
\* task included.
HostFindings(kind, name) ==
    {k \in DOMAIN errs :
        /\ errs[k].Message[1] = kind
        /\ errs[k].Message[2] = name
        /\ errs[k].Level = Warning}

C14_GroupHostCap ==
    pc = "checkTaskGroups" =>
        \A i \in DOMAIN project.TaskGroups :
            LET tg == project.TaskGroups[i]
            IN /\ (tg.MaxHosts < 1) =>
                    HostFindings("task group has number of hosts less than 1",
                                 tg.Name) # {}
               /\ (tg.MaxHosts > Len(tg.Tasks) \div 2) =>
                    HostFindings("task group has max number of hosts greater than half the number of tasks",
                                 tg.Name) # {}

-----------------------------------------------------------------------------
\* C15: ordering of the report. In the result of CheckProjectSyntax the
\* findings of the check at position i of the syntax check list come before
\* the findings of the check at position j for i < j, and the distro-failure
\* finding and the referential-integrity findings come after the findings
\* of every listed check.
\* the findings between the return of check i - 1 and the return of check i
SegmentOf(i) ==
    SubSeq(validationErrs, (IF i = 1 THEN 0 ELSE battery.ends[i - 1]) + 1,
           battery.ends[i])

\* what tells a finding of one of the two walking checks
IsFindingOfWalk(validator, f) ==
    IF validator = "checkDependencyGraph"
    THEN f.Message[1] = "dependency error for task"
    ELSE \/ /\ f.Message[1] = "build variant with task may only call command n time(s) but calls it m time(s)"
            /\ f.Message[4] = S3PushCommandName
         \/ f.Message[1] \in
               {"could not generate map of build variants with tasks that call command",
                "could not parse parameters for command",
                "problem validating that task running command depends on task running command",
                "problem validating that task runs command",
                "task in build variant does not run command"}

SyntaxTail ==
    SubSeq(validationErrs, battery.ends[Len(projectSyntaxValidators)] + 1,
           Len(validationErrs))

C15_ReportOrder ==
    pc = "syntaxErrs" =>
        /\ Len(battery.ends) = Len(projectSyntaxValidators)
        /\ \A i \in DOMAIN projectSyntaxValidators :
              IF projectSyntaxValidators[i] \in Walks
              THEN \A k \in DOMAIN SegmentOf(i) :
                      IsFindingOfWalk(projectSyntaxValidators[i], SegmentOf(i)[k])
              ELSE SegmentOf(i)
                      \in ValidatorResults(projectSyntaxValidators[i], project, env)
        /\ LET found == getDistrosForProject(project.Identifier, env)
           IN SyntaxTail
              = (IF found.err # <<>>
                 THEN <<Finding(Error, <<"can't get distros from database">>)>>
                 ELSE <<>>)
                \o ensureReferentialIntegrity(project, found.ids, found.aliases)

\* three listed checks, the distro failure and the integrity pass each
\* contributed findings
C15_Witness ==
    /\ pc = "syntaxErrs"
    /\ Cardinality({i \in DOMAIN battery.ends : SegmentOf(i) # <<>>}) >= 3
    /\ Len(SyntaxTail) >= 2
    /\ IsDistroFailure(SyntaxTail[1])

-----------------------------------------------------------------------------
\* C16: concurrent calls do not interfere. When two callers run the entry
\* points at the same time, on the same or on different projects, then
\* under every interleaving each call returns findings it can return when
\* it runs alone, and no step of the running call changes the locals of the
\* other call (its visited map, node map, errs and loop positions).
ResultsAlone(locals) ==
    IF locals.pc = "done" THEN checkDependencyGraphAlone(locals.project)
    ELSE validateTaskSyncCommandsAlone(locals.project)

-----------------------------------------------------------------------------
\* C17: scenario S2. For the project with variant v1 and tasks a and b, b
\* depending on a and a on b, checkDependencyGraph returns at least one
\* Error finding that mentions both a and b (as the task the walk started
\* from or as the reported node) and says the node is part of a cycle.
TasksMentioned(f) == {f.Message[2], f.Message[4].TaskName}

C17_ScenarioS2 ==
    (project = ScenarioS2 /\ GraphChecked) =>
        \E k \in DOMAIN errs :
            /\ errs[k].Level = Error
            /\ IsCycleFinding(errs[k])
            /\ {tA, tB} \subseteq TasksMentioned(errs[k])

-----------------------------------------------------------------------------
-----------------------------------------------------------------------------
\* C19: when validateTVDependsOnTV finds no qualifying path, the error it
\* returns names the source, the target and the runtime mode that required
\* the relationship (patches, non-patches, both, or git-tag builds), for
\* every combination of the source's skip predicates SkipOnPatchBuild,
\* SkipOnNonPatchBuild and SkipOnNonGitTagBuild.
ModeNames ==
    {" for both patches and non-patches", " for patches", " for non-patches",
     " for git-tag builds"}

C19_ModeNamed ==
    PullWalked =>
        \A i \in DOMAIN out.findings :
            IsMustDependFinding(out.findings[i]) =>
                /\ out.findings[i].Message[4][2] = out.source
                /\ out.findings[i].Message[4][3] = out.target
                /\ out.findings[i].Message[4][4] \in ModeNames

-----------------------------------------------------------------------------
\* C20: no false cycle reports. Every finding of checkDependencyGraph that
\* says a node is part of a dependency cycle names a node that lies on a
\* cycle of the dependency graph; for an acyclic graph, even one with a
\* dependency on a node missing from the node map, no cycle finding is
\* returned, whatever order the top-level nodes are walked in.
C20_NoFalseCycle ==
    GraphChecked =>
        \A k \in DOMAIN errs :
            IsCycleFinding(errs[k]) => OnCycle(tvToTaskUnit, errs[k].Message[4])

-----------------------------------------------------------------------------
\* C21 as stated: the lastDepNeedsSuccess value carried over an edge is true
\* for every dependency status except 'failed' ('', 'success' and the
\* all-statuses sentinel '*'): a pull whose pulling task has a dependency on
\* the push task with such a status, one it can count on in every build it
\* runs in, gets no 'must depend on' error.
CarriesSuccessAsStated(dep) == dep.Status # TaskFailed

\* the dependencies of the source on the target the walk can take when their
\* status satisfies carries
DirectEdges(m, source, carries(_)) ==
    LET reqs == DependencyRequirements(m[source])
    IN {e \in EdgesOf(m, LAMBDA dep : /\ carries(dep)
                                      /\ ~(reqs.requireOnPatches /\ dep.PatchOptional)) :
           e[1] = source /\ e[2] \in DOMAIN m /\ ~SkippedWhenRequired(reqs, m[e[2]])}

C21_AllStatusesCarrySuccess ==
    PullWalked =>
        (<<out.source, out.target>> \in DirectEdges(tvToTaskUnit, out.source,
                                                   CarriesSuccessAsStated)
            => \A i \in DOMAIN out.findings : ~IsMustDependFinding(out.findings[i]))

\* C21 amended: lastDepNeedsSuccess is true exactly for the statuses '' and
\* 'success', and false for 'failed' and for the all-statuses sentinel '*'.
\* A pull whose pulling task has a dependency on the push task of status ''
\* or 'success' that it can count on gets no 'must depend on' error; a pull
\* whose push task is the target of no dependency of status '' or 'success'
\* (its only edges have status 'failed' or '*') gets an error of the
\* dependency check, the 'must depend on' error when the graph has no cycle
\* and no undefined dependency.
C21_SuccessStatusesCarry ==
    PullWalked =>
        /\ <<out.source, out.target>> \in DirectEdges(tvToTaskUnit, out.source,
                                                     NeedsSuccess)
              => \A i \in DOMAIN out.findings : ~IsMustDependFinding(out.findings[i])
        /\ (\A e \in EdgesOf(tvToTaskUnit, NeedsSuccess) : e[2] # out.target)
              => /\ \E i \in DOMAIN out.findings : IsDependencyFinding(out.findings[i])
                 /\ (~HasCycle(tvToTaskUnit) /\ AllTargetsExist(tvToTaskUnit))
                       => \E i \in DOMAIN out.findings :
                             IsMustDependFinding(out.findings[i])

\* the pull of task a, whose only dependency is the one on the push task c
\* with status '*', got the 'must depend on' error and no other finding
C21_Witness ==
    /\ PullWalked
    /\ project = StatusProject(AllStatuses, FALSE)
    /\ Len(out.findings) = 1
    /\ IsMustDependFinding(out.findings[1])

-----------------------------------------------------------------------------
\* C22 as stated: dependenciesForTaskUnit expands a dependency of the current
\* node (cv, ct) as the four-case table says: (a) a variant (the current one
\* when empty) and a task give {(depVariant, depName)}; (b) a variant and
\* AllDependencies give every node (depVariant, t) with t # ct; (c)
\* AllVariants and a task give every node (v, depName) with v # cv, never the
\* node on the current variant; (d) AllVariants and AllDependencies give
\* every node but the current one.
ExpansionTable(tv, dep, nodes, allVariantsOfTask) ==
    LET depVariant == IF dep.Variant = EmptyName THEN tv.Variant ELSE dep.Variant
    IN IF dep.Variant # AllVariants /\ dep.Name # AllDependencies
       THEN {TV(depVariant, dep.Name)}
       ELSE IF dep.Variant # AllVariants
       THEN {n \in nodes : n.Variant = depVariant /\ n.TaskName # tv.TaskName}
       ELSE IF dep.Name # AllDependencies
       THEN allVariantsOfTask
       ELSE nodes \ {tv}

C22_ExpansionTable ==
    pc = "dependenciesForTaskUnit" =>
        \A dep \in DOMAIN out :
            Range(out[dep]) =
                ExpansionTable(call.tv, dep, Range(call.allTVs),
                    {n \in Range(call.allTVs) :
                        n.TaskName = dep.Name /\ n.Variant # call.tv.Variant})

\* C22 amended: rows a, b and d as stated; (c) AllVariants and a task give
\* every node (v, depName) other than the current node itself, so the node
\* of that task on the current variant is included unless the dependency
\* names the current task.
C22_ExpansionTableButCurrentNode ==
    pc = "dependenciesForTaskUnit" =>
        /\ DOMAIN out = Range(TvToTaskUnit(project)[call.tv].DependsOn)
        /\ \A dep \in DOMAIN out :
              Range(out[dep]) =
                  ExpansionTable(call.tv, dep, Range(call.allTVs),
                      {n \in Range(call.allTVs) :
                          n.TaskName = dep.Name /\ n # call.tv})

\* task a depends on task b of all variants, and the expansion holds b on
\* a's own variant and on another one
C22_Witness ==
    /\ pc = "dependenciesForTaskUnit"
    /\ \E dep \in DOMAIN out :
          /\ dep.Variant = AllVariants
          /\ dep.Name = tB
          /\ call.tv.TaskName = tA
          /\ TV(call.tv.Variant, tB) \in Range(out[dep])
          /\ \E n \in Range(out[dep]) : n.Variant # call.tv.Variant

-----------------------------------------------------------------------------
\* C23 as stated: for every build variant and every task that runs on it,
\* listed directly or as a member of a task group, the s3.pull commands
\* checked by validateTaskSyncCommands include those of the project Pre and
\* Post sections; for task-group members they also include the group's
\* SetupGroup, SetupTask, TeardownGroup and TeardownTask, and in both cases
\* the task's own commands.
PullsOf(cmds, bvName) ==
    {c \in Range(cmds) :
        c.Command = S3PullCommandName
        /\ (c.Variants = <<>> \/ bvName \in Range(c.Variants))}

ListedOn(p, bvName, task) ==
    \E i \in DOMAIN p.BuildVariants :
        /\ p.BuildVariants[i].Name = bvName
        /\ \E u \in Range(p.BuildVariants[i].Tasks) : ~u.IsGroup /\ u.Name = task

\* the task groups listed on the variant that the task is a member of
GroupsOn(p, bvName, task) ==
    {tg \in Range(p.TaskGroups) :
        /\ FindTaskGroup(p, tg.Name) = <<tg>>
        /\ task \in Range(tg.Tasks)
        /\ \E i \in DOMAIN p.BuildVariants :
              /\ p.BuildVariants[i].Name = bvName
              /\ \E u \in Range(p.BuildVariants[i].Tasks) : u.IsGroup /\ u.Name = tg.Name}

\* the s3.pull commands that run for the task on the variant, the Pre and
\* Post sections running for the members of a task group or not
PullsThatRun(p, tv, preAndPostForMembers) ==
    LET listed == ListedOn(p, tv.Variant, tv.TaskName)
        groups == GroupsOn(p, tv.Variant, tv.TaskName)
    IN (IF listed \/ (preAndPostForMembers /\ groups # {})
        THEN PullsOf(p.Pre, tv.Variant) \cup PullsOf(p.Post, tv.Variant) ELSE {})
       \cup UNION {PullsOf(tg.SetupGroup, tv.Variant) \cup PullsOf(tg.SetupTask, tv.Variant)
                   \cup PullsOf(tg.TeardownGroup, tv.Variant)
                   \cup PullsOf(tg.TeardownTask, tv.Variant) : tg \in groups}
       \cup (IF (listed \/ groups # {}) /\ FindProjectTask(p, tv.TaskName) # <<>>
             THEN PullsOf(FindProjectTask(p, tv.TaskName)[1].Commands, tv.Variant)
             ELSE {})

TasksOn(p) ==
    {TV(p.BuildVariants[i].Name, name) :
        i \in DOMAIN p.BuildVariants,
        name \in {p.Tasks[k].Name : k \in DOMAIN p.Tasks}
                 \cup {u.Name : u \in UNION {Range(p.BuildVariants[j].Tasks) :
                                               j \in DOMAIN p.BuildVariants}}
                 \cup UNION {Range(tg.Tasks) : tg \in Range(p.TaskGroups)}}

\* validateTaskSyncCommands has built the map and ranged over none of it yet
PullsMapped == pc = "s3.pull" /\ loop = NoLoop /\ out = NoPull

C23_PreAndPostForEveryTask ==
    /\ [](PullsMapped =>
             \A tv \in TasksOn(project) :
                 PullsThatRun(project, tv, TRUE) # {} => tv \in todo)
    /\ [][(loop.cmds = <<>> /\ loop' # loop) =>
             PullsThatRun(project, TV(loop'.bv[1], loop'.task), TRUE)
                 \subseteq Range(loop'.cmds)]_vars

\* C23 amended: for a task listed directly on the variant the s3.pull
\* commands checked are those of the project Pre and Post sections and the
\* task's own; for a member of a task group they are those of the group's
\* SetupGroup, SetupTask, TeardownGroup and TeardownTask and the task's own,
\* and not those of Pre and Post. No other command is checked, and every task
\* with such a command is checked.
C23_PreAndPostForListedTasks ==
    /\ [](PullsMapped =>
             todo = {tv \in TasksOn(project) : PullsThatRun(project, tv, FALSE) # {}})
    /\ [][(loop.cmds = <<>> /\ loop' # loop) =>
             Range(loop'.cmds) = PullsThatRun(project, TV(loop'.bv[1], loop'.task), FALSE)]_vars

\* the pulls about to be checked for task b, a member of task group g, are
\* those of the group's setup and teardown and b's own, while Pre and Post
\* hold pulls that run on the variant
C23_Witness ==
    /\ pc = "s3.pull"
    /\ loop.task = tB
    /\ Len(loop.cmds) = 3
    /\ PullsOf(project.Pre, v1) # {}
    /\ PullsOf(project.Post, v1) # {}
    /\ PullsOf(project.Pre, v1) \cap Range(loop.cmds) = {}
    /\ Range(loop.cmds) = PullsThatRun(project, TV(v1, tB), FALSE)

-----------------------------------------------------------------------------
\* C24: cycles abort the reachability search. Whenever the dependencies
\* reachable from the pulling task hold a cycle, validateTVDependsOnTV
\* returns an error, whatever order the dependencies are explored in and
\* even when the target is also reachable by a path without a cycle.
CycleReachableFrom(m, n) ==
    \E k \in {n} \cup ReachableFrom(m, n) : OnCycle(m, k)

C24_CyclesAbort ==
    (PullWalked /\ CycleReachableFrom(tvToTaskUnit, out.source))
        => \E i \in DOMAIN out.findings : IsDependencyFinding(out.findings[i])

-----------------------------------------------------------------------------
\* C25: self-dependency. When an s3.pull names its own task on its own
\* variant (from_build_variant absent or empty defaulting to the pulling
\* variant), validateTVDependsOnTV returns the 'cannot depend on itself'
\* error without walking the graph: exactly one dependency finding is emitted
\* for that pull, and it is not a cycle or reachability finding.
PullsItself(cmd, bv, task) ==
    /\ "task" \in DOMAIN cmd.Params
    /\ cmd.Params["task"].IsString
    /\ cmd.Params["task"].Str = task
    /\ \/ "from_build_variant" \notin DOMAIN cmd.Params
       \/ /\ cmd.Params["from_build_variant"].IsString
          /\ cmd.Params["from_build_variant"].Str \in {EmptyName, bv}

IsSelfDependencyFinding(f, source) ==
    /\ IsDependencyFinding(f)
    /\ f.Level = Error
    /\ f.Message[4] = <<"task cannot depend on itself", source>>

C25_SelfDependency ==
    [][(pc = "s3.pull" /\ loop.cmds # <<>>
        /\ PullsItself(Head(loop.cmds), loop.bv[1], loop.task)) =>
          /\ pc' = "s3.pull"
          /\ stack' = NoFrames
          /\ visited' = visited
          /\ out'.parsed
          /\ out'.source = TV(loop.bv[1], loop.task)
          /\ out'.target = out'.source
          /\ Cardinality({i \in DOMAIN out'.findings :
                             IsDependencyFinding(out'.findings[i])}) = 1
          /\ \E i \in DOMAIN out'.findings :
                IsSelfDependencyFinding(out'.findings[i], out'.source)
          /\ errs' = errs \o out'.findings]_vars

\* task a pulled from task a without naming a build variant, and the only
\* finding of the dependency check is the one of the self-dependency
C25_Witness ==
    /\ pc = "s3.pull"
    /\ out.parsed
    /\ out.source = TV(v1, tA)
    /\ out.target = out.source
    /\ project.Tasks[1].Commands # <<>>
    /\ "from_build_variant" \notin DOMAIN project.Tasks[1].Commands[1].Params
    /\ \E i \in DOMAIN out.findings : IsSelfDependencyFinding(out.findings[i], out.source)

-----------------------------------------------------------------------------
\* C26: s3.pull parameter errors. When the 'task' parameter is missing or not
\* a string, or 'from_build_variant' is present and not a string,
\* validateTaskSyncCommands emits exactly one Error finding for that command
\* and skips it: no dependency finding and no 'does not run s3.push' finding
\* is produced for it, and the remaining s3.pull commands are still checked.
ParametersInError(cmd) ==
    \/ "task" \notin DOMAIN cmd.Params
    \/ ~cmd.Params["task"].IsString
    \/ /\ "from_build_variant" \in DOMAIN cmd.Params
       /\ ~cmd.Params["from_build_variant"].IsString

IsParseFinding(f) ==
    f.Level = Error /\ f.Message[1] = "could not parse parameters for command"

C26_ParameterErrors ==
    [][(pc = "s3.pull" /\ loop.cmds # <<>>) =>
          IF ParametersInError(Head(loop.cmds))
          THEN /\ Len(errs') = Len(errs) + 1
               /\ SubSeq(errs', 1, Len(errs)) = errs
               /\ IsParseFinding(errs'[Len(errs')])
               /\ loop'.cmds = Tail(loop.cmds)
               /\ todo' = todo
               /\ pc' = "s3.pull"
               /\ stack' = NoFrames
          ELSE \A i \in (Len(errs) + 1)..Len(errs') : ~IsParseFinding(errs'[i])]_vars

\* after the finding for the parameters of its first s3.pull, task a got the
\* finding of the dependency check of its second one
C26_Witness ==
    /\ pc = "s3.pull"
    /\ project \in ParamErrorProjects
    /\ loop.cmds = <<>>
    /\ Len(errs) = 2
    /\ IsParseFinding(errs[1])
    /\ IsMustDependFinding(errs[2])
    /\ out.source = TV(v1, tA)
    /\ out.target = TV(v1, tC)

-----------------------------------------------------------------------------
\* C27: on an acyclic dependency graph whose dependency targets all exist,
\* dependencyMustRun started at the source returns true exactly when a path
\* leads from the source to the target such that (1) no node on it, the
\* target included, is skipped in a mode the source requires, (2) no edge on
\* it is optional on patches when the source requires patches, and (3) its
\* last edge needs success; the statuses of the earlier edges do not matter,
\* nor does the order the dependencies are explored in.
Modes == {"patches", "non-patches", "git-tag"}

SkippedIn(taskUnit, mode) ==
    IF mode = "patches"
    THEN taskUnit.Skips.Patch = "yes" \/ taskUnit.Skips.NonGitTag = "yes"
    ELSE IF mode = "non-patches"
    THEN taskUnit.Skips.NonPatch = "yes" \/ taskUnit.Skips.NonGitTag = "yes"
    ELSE taskUnit.Skips.NonPatch = "yes"

ModesRequiredBy(sourceTask) ==
    {mode \in Modes :
        IF mode = "git-tag" THEN sourceTask.Skips.NonPatch # "yes"
        ELSE ~SkippedIn(sourceTask, mode)}

\* the edges of m a walk for the source can take, their status satisfying
\* carries
EdgesWalked(m, source, carries(_)) ==
    {e \in EdgesOf(m, LAMBDA dep :
                /\ carries(dep)
                /\ ~("patches" \in ModesRequiredBy(m[source]) /\ dep.PatchOptional)) :
        /\ e[2] \in DOMAIN m
        /\ \A mode \in ModesRequiredBy(m[source]) : ~SkippedIn(m[e[2]], mode)}

QualifyingPath(m, source, target) ==
    \E n \in {source} \cup PathsFrom(EdgesWalked(m, source, LAMBDA dep : TRUE), source) :
        <<n, target>> \in EdgesWalked(m, source, NeedsSuccess)

C27_MustRunIsQualifyingPath ==
    (PullWalked /\ ~HasCycle(tvToTaskUnit) /\ AllTargetsExist(tvToTaskUnit)) =>
        IF QualifyingPath(tvToTaskUnit, out.source, out.target)
        THEN \A i \in DOMAIN out.findings : ~IsDependencyFinding(out.findings[i])
        ELSE \E i \in DOMAIN out.findings : IsMustDependFinding(out.findings[i])

\* the pull passed by the path a -> b -> c whose first edge has status
\* 'failed' or '*' and whose last edge needs success
C27_Witness ==
    /\ PullWalked
    /\ project \in PathProjects
    /\ out.findings = <<>>
    /\ QualifyingPath(tvToTaskUnit, out.source, out.target)
    /\ <<out.source, out.target>> \notin EdgesOf(tvToTaskUnit, LAMBDA dep : TRUE)

-----------------------------------------------------------------------------
\* C28: visited-map invariant of cycle detection. Whenever a top-level call
\* of dependencyCycleExists returns without error, every entry of the visited
\* map is false again; hence on an acyclic graph with no missing targets
\* every top-level walk starts from an all-false visited map and
\* checkDependencyGraph returns no finding.
AllFalse(vis) == \A n \in DOMAIN vis : ~vis[n]

TopLevelReturnsNil ==
    /\ pc = "dependencyCycleExists"
    /\ Len(stack) = 1
    /\ stack' = NoFrames
    /\ errs' = errs

C28_VisitedAllFalse ==
    /\ [][TopLevelReturnsNil => AllFalse(visited')]_vars
    /\ []((pc = "dependencyCycleExists" /\ ~HasCycle(tvToTaskUnit)
           /\ AllTargetsExist(tvToTaskUnit)) =>
             /\ stack = NoFrames => AllFalse(visited)
             /\ errs = <<>>)

-----------------------------------------------------------------------------
\* C29: termination. On every finite dependency graph, with or without
\* cycles and undefined targets, each top-level call of dependencyCycleExists
\* and of dependencyMustRun eventually returns, and so does the check that
\* makes it; the recursion never enters a node that is already marked
\* visited, so its depth never exceeds the number of nodes.
C29_Termination ==
    /\ (stack # NoFrames) ~> (stack = NoFrames)
    /\ <>(pc \in {"done", "returned"})
    /\ [](/\ Len(stack) <= Cardinality(DOMAIN tvToTaskUnit)
          /\ \A i, j \in DOMAIN stack : stack[i].node = stack[j].node => i = j)
    /\ [][Len(stack') > Len(stack) =>
             LET node == stack'[Len(stack')].node
                 \* validateTVDependsOnTV makes the map of its walk
                 vis == IF pc = "s3.pull" THEN [n \in DOMAIN visited' |-> FALSE]
                        ELSE visited
             IN node \in DOMAIN vis /\ ~vis[node] /\ visited'[node]]_vars

\* the recursion of dependencyCycleExists is as deep as the graph has nodes,
\* on a graph that has a cycle and an undefined target
C29_Witness ==
    /\ pc = "dependencyCycleExists"
    /\ Len(stack) = 3
    /\ Cardinality(DOMAIN tvToTaskUnit) = 3
    /\ HasCycle(tvToTaskUnit)
    /\ ~AllTargetsExist(tvToTaskUnit)

-----------------------------------------------------------------------------
(* Build variant names *)

\* the name a build variant is shown under
ShownAs(bv) == IF bv.DisplayName = <<>> THEN bv.Name ELSE bv.DisplayName

\* variant i has the name of another variant of the list, or '|' in its name
NameInError(bvs, i) ==
    \/ \E j \in DOMAIN bvs : j # i /\ bvs[j].Name = bvs[i].Name
    \/ \E k \in DOMAIN bvs[i].Name : bvs[i].Name[k] = "|"

\* the variants of the list shown under the name k
ShownUnder(bvs, k) == {i \in DOMAIN bvs : ShownAs(bvs[i]) = k}

SharedDisplayNames(bvs) ==
    {k \in {ShownAs(bvs[i]) : i \in DOMAIN bvs} : Cardinality(ShownUnder(bvs, k)) > 1}

\* C30: validateBVNames never returns errors and warnings together. If any
\* build variant name is a duplicate or contains '|', the result holds only
\* Error findings, at least one, and no finding about a display name;
\* otherwise it holds exactly one Warning per display name (the variant name
\* when the display name is empty) that more than one variant is shown under,
\* and nothing else.
C30_ErrorsOrWarnings ==
    pc = "validateBVNames" =>
        LET bvs == project.BuildVariants
        IN /\ ~\E i, j \in DOMAIN errs :
                  errs[i].Level = Error /\ errs[j].Level = Warning
           /\ (\E i \in DOMAIN bvs : NameInError(bvs, i)) =>
                  /\ errs # <<>>
                  /\ \A i \in DOMAIN errs :
                        /\ errs[i].Level = Error
                        /\ errs[i].Message[1] # "build variants share the same display name"
           /\ ~(\E i \in DOMAIN bvs : NameInError(bvs, i)) =>
                  /\ Len(errs) = Cardinality(SharedDisplayNames(bvs))
                  /\ \A i \in DOMAIN errs : errs[i].Level = Warning
                  /\ \A k \in SharedDisplayNames(bvs) :
                        \E i \in DOMAIN errs :
                            errs[i].Message =
                                <<"build variants share the same display name",
                                  Cardinality(ShownUnder(bvs, k)), k>>

\* three variants, two of them with one name and two of them shown under one
\* name: the call returned errors only
C30_Witness ==
    /\ pc = "validateBVNames"
    /\ Len(project.BuildVariants) = 3
    /\ \E i \in DOMAIN project.BuildVariants : NameInError(project.BuildVariants, i)
    /\ SharedDisplayNames(project.BuildVariants) # {}
    /\ errs # <<>>
    /\ \A i \in DOMAIN errs : errs[i].Level = Error

\* two variants with names of their own, one shown under the name of the
\* other for want of a display name: the call returned one warning
C30_WitnessWarning ==
    /\ pc = "validateBVNames"
    /\ \E i, j \in DOMAIN project.BuildVariants :
          /\ project.BuildVariants[i].DisplayName = <<>>
          /\ project.BuildVariants[j].DisplayName = project.BuildVariants[i].Name
    /\ Len(errs) = 1
    /\ errs[1].Level = Warning

=============================================================================
